---- MODULE Spec2Model ----
(***************************************************************************)
(* A model of pw-twin-tools: the Flask front end (src/app/app.py), the     *)
(* MarathonMonitor (src/app/monitor.py) and the tables of the Database     *)
(* (src/app/models.py).                                                    *)
(*                                                                         *)
(* Threads. check_all_accounts is a public method of MarathonMonitor; the   *)
(* application calls it from the thread of start_scheduled_monitoring      *)
(* (monitor.py:837) and later from the schedule_loop thread                *)
(* (monitor.py:840-849). The model has two callers of the method, s1 and   *)
(* s2, so that an invocation during a running batch can be examined. The   *)
(* Flask handlers refresh_account and activate_promo run on web-request    *)
(* threads, w1 and w2. All threads share one MarathonMonitor object, hence *)
(* one is_checking flag, and one database.                                 *)
(*                                                                         *)
(* What the remote site and the Selenium grid answer for an account is     *)
(* held in the variable site; it is chosen in the initial state and the    *)
(* program never writes it.                                                *)
(*                                                                         *)
(* Specifications. Spec and FairSpec run the handlers concurrently;        *)
(* SpecBatch, SpecPromo, SpecSessions and SpecAdmin run one thread over a  *)
(* wider range of persisted states, pages, grid outcomes and requests;     *)
(* SpecPure applies parse_progress and the diff of one task to a text.     *)
(***************************************************************************)
EXTENDS Integers, Sequences, FiniteSets, TLC

\* ------------------------------------------------------------------------
\* Bounds of the model
\* ------------------------------------------------------------------------
\* the largest task counter of the initial histories and pages
MaxX == 1
\* the longest progress text given to parse_progress
MaxLen == 4
\* the most task rows of an account up to which save_task_data is called
MaxRows == 2
\* the most keyword arguments passed in a call of save_account_data
MaxArgs == 2
\* the longest text given to escape_markdown_v2
MaxText == 7

\* ------------------------------------------------------------------------
\* Program constants
\* ------------------------------------------------------------------------
width == 10
max_attempts == 5
\* _send_grouped_reports: the three limits on the length of a message
flush_limit == 3500
message_limit == 4096
part_limit == 4000

\* ------------------------------------------------------------------------
\* Value spaces
\* ------------------------------------------------------------------------
SchedThreads == {"s1", "s2"}
WebThreads == {"w1", "w2"}
Threads == SchedThreads \cup WebThreads

Accounts == {"a1", "a2", "a3"}
TaskNames == {"T1", "T2"}
NULL == "NULL"
\* 'Общая', the group _init_db inserts
DefaultGroup == "Obshchaya"
\* "Без группы", the key check_all_accounts uses for a NULL group name
FallbackBucket == "Bez gruppy"
\* texts the points_info element can hold: two numbers and a non-number
MdmTexts == {"0", "7", "x"}
PromoPages == {"none", "already", "invalid", "expired", "other", "exception"}

IsNumeric(s) == s \in {"0", "7"}
IntOf(s) == IF s = "7" THEN 7 ELSE 0

\* the totals of the tasks; parse_progress never yields a total of 0
YVals == {1, 2}
TaskRows == [name : TaskNames, x : 0..MaxX, y : YVals]

RECURSIVE Names(_)
Names(rows) ==
    IF rows = << >> THEN {} ELSE {Head(rows).name} \cup Names(Tail(rows))

\* ------------------------------------------------------------------------
\* State
\* ------------------------------------------------------------------------
VARIABLES
    is_checking,       \* MarathonMonitor.is_checking
    pc,                \* per thread: where it stands in its handler
    op,                \* per thread: the operation it runs or ran last
    live,              \* the threads of this run
    cookie_files,      \* os.listdir(cookies_dir), the *.pkl files, as usernames
    site,              \* per account: what the site and the grid answer
    db_accounts,       \* table accounts: username -> row
    db_tasks,          \* table tasks: username -> rows in insertion order
    db_chars,          \* table account_characters: username has rows
    db_promo_codes,    \* table promo_codes, the row of the one code: its status
    db_account_promo,  \* table account_promo_codes: username -> status
    db_groups,         \* table groups: the names of its rows
    db_gifts,          \* table account_gifts: username has rows
    orphans,           \* accounts for which a browser session was left open
    input,             \* the argument of the pure function under study
    output,            \* its result
    session,           \* per thread: a webdriver.Remote session is open
    ca,                \* per thread: check_account's locals
    batch,             \* per thread: check_all_accounts' locals
    promo,             \* per thread: activate_promo_code's locals
    response,          \* per thread: what the last request was answered
    busyAtArrival      \* per thread: a check was in flight when the request came

dbvars == <<db_accounts, db_tasks, db_chars, db_promo_codes, db_account_promo,
            db_groups, db_gifts>>
purevars == <<input, output>>
envvars == <<live, cookie_files, site, purevars>>
vars == <<is_checking, pc, op, live, cookie_files, site, db_accounts, db_tasks,
          db_chars, db_promo_codes, db_account_promo, db_groups, db_gifts,
          orphans, input, output, session, ca, batch, promo, response,
          busyAtArrival>>

\* ------------------------------------------------------------------------
\* Pure helpers of monitor.py
\* ------------------------------------------------------------------------
\* Texts of the progress element, as sequences of characters: some digits,
\* the minus sign, the slash, and "x" for a character int() does not accept.
\* Outside this alphabet int() also accepts surrounding blanks, a plus sign
\* and underscores between digits, and x/y*100 raises OverflowError for
\* integers beyond the range of a float (more than 308 digits).
Digits == {"0", "1", "3", "5"}
Chars == Digits \cup {"-", "/", "x"}
Strings == UNION {[1..n -> Chars] : n \in 0..MaxLen}

DigitValue(c) == CASE c = "0" -> 0 [] c = "1" -> 1 [] c = "3" -> 3 [] c = "5" -> 5

\* str.split('/'): the parts between the slashes, empty parts included
RECURSIVE SplitFrom(_, _)
SplitFrom(str, part) ==
    IF str = << >> THEN << part >>
    ELSE IF Head(str) = "/" THEN << part >> \o SplitFrom(Tail(str), << >>)
    ELSE SplitFrom(Tail(str), Append(part, Head(str)))

split(str) == SplitFrom(str, << >>)

\* int() of the digits read so far and the rest of the text
RECURSIVE IntDigits(_, _)
IntDigits(str, acc) ==
    IF str = << >> THEN [raised |-> FALSE, value |-> acc]
    ELSE IF Head(str) \in Digits
    THEN IntDigits(Tail(str), 10 * acc + DigitValue(Head(str)))
    ELSE [raised |-> TRUE, value |-> 0]

\* int(text): an optional sign and at least one digit, else ValueError
int(str) ==
    IF str = << >> THEN [raised |-> TRUE, value |-> 0]
    ELSE IF Head(str) = "-"
    THEN IF Tail(str) = << >> THEN [raised |-> TRUE, value |-> 0]
         ELSE LET r == IntDigits(Tail(str), 0)
              IN  [raised |-> r.raised, value |-> 0 - r.value]
    ELSE IntDigits(str, 0)

\* the fallback of the except clause: (0, 1, 0)
ParseFallback == [x |-> 0, y |-> 1, percent |-> <<0, 1>>]

\* a parse_progress whose except clause does not catch ZeroDivisionError
\* and lets the pair through
parse_progress_unguarded(str) ==
    LET parts == split(str)
    IN  IF Len(parts) # 2 THEN ParseFallback
        ELSE IF int(parts[1]).raised \/ int(parts[2]).raised THEN ParseFallback
        ELSE [x |-> int(parts[1]).value, y |-> int(parts[2]).value,
              percent |-> <<100 * int(parts[1]).value, int(parts[2]).value>>]

\* parse_progress (monitor.py:278-293): x, y = map(int, text.split('/'))
\* raises ValueError unless there are exactly two parts and both are
\* integers; (x / y) * 100 raises ZeroDivisionError for y = 0. The percent
\* is kept as the fraction 100 x / y.
parse_progress(str) ==
    LET parts == split(str)
    IN  IF Len(parts) # 2 THEN ParseFallback
        ELSE IF int(parts[1]).raised \/ int(parts[2]).raised THEN ParseFallback
        ELSE IF int(parts[2]).value = 0 THEN ParseFallback
        ELSE [x |-> int(parts[1]).value, y |-> int(parts[2]).value,
              percent |-> <<100 * int(parts[1]).value, int(parts[2]).value>>]

\* Python's round(): to the nearest integer, ties to the even one.
RoundHalfEven(num, den) ==
    LET q == num \div den
        r == num % den
    IN  IF 2 * r < den THEN q
        ELSE IF 2 * r > den THEN q + 1
        ELSE IF q % 2 = 0 THEN q ELSE q + 1

\* _get_progress_bar: filled_count = int(round(percent / 100 * width)),
\* for percent = x / y * 100; the bar is filled * n + empty * (width - n),
\* and a string times a negative number is empty.
filled_count(x, y) ==
    IF y > 0 THEN RoundHalfEven(width * x, y)
    ELSE RoundHalfEven(-(width * x), -y)

Cells(n) == IF n < 0 THEN 0 ELSE n

get_progress_bar(x, y) ==
    [filled |-> Cells(filled_count(x, y)),
     empty  |-> Cells(width - filled_count(x, y))]

\* ------------------------------------------------------------------------
\* escape_markdown_v2 (monitor.py:191-219), character by character
\* ------------------------------------------------------------------------
\* Texts over the backtick, one more of the escaped characters, a letter and
\* the backslash, which is not among escape_chars.
Backtick == "bt"
Underscore == "us"
Backslash == "bs"
FenceChars == <<Backtick, Backtick, Backtick>>
MarkupChars == {Backtick, Underscore, "a", Backslash}
\* of the characters of escape_chars, the two of the alphabet
escape_chars == {Backtick, Underscore}
Texts == UNION {[1..n -> MarkupChars] : n \in 0..MaxText}

\* text.startswith('```', i)
startswith_fence(text, i) ==
    /\ i + 2 <= Len(text)
    /\ text[i] = Backtick /\ text[i + 1] = Backtick /\ text[i + 2] = Backtick

\* text.find('```', i): the first index from i on, 0 for -1
find(text, i) ==
    IF \E j \in i..Len(text) : startswith_fence(text, j)
    THEN CHOOSE j \in i..Len(text) :
            /\ startswith_fence(text, j)
            /\ \A k \in i..(j - 1) : ~startswith_fence(text, k)
    ELSE 0

\* the while loop from index i on
RECURSIVE escape_from(_, _)
escape_from(text, i) ==
    IF i > Len(text) THEN << >>
    ELSE IF startswith_fence(text, i)
    THEN LET end == find(text, i + 3)
         IN  IF end = 0
             THEN FenceChars \o SubSeq(text, i + 3, Len(text))
             ELSE FenceChars \o SubSeq(text, i + 3, end - 1)
                  \o FenceChars \o escape_from(text, end + 3)
    ELSE IF text[i] \in escape_chars
    THEN <<Backslash, text[i]>> \o escape_from(text, i + 1)
    ELSE <<text[i]>> \o escape_from(text, i + 1)

escape_markdown_v2(text) == escape_from(text, 1)

\* ------------------------------------------------------------------------
\* The report (monitor.py:83-219), by the lengths of its texts
\* ------------------------------------------------------------------------
\* A text is a sequence of pieces: a fence ```, or n characters without a
\* backtick of which r are among the characters escape_markdown_v2 escapes.
Piece(n, r) == << [fence |-> FALSE, n |-> n, r |-> r] >>
Fence == << [fence |-> TRUE, n |-> 3, r |-> 0] >>
Newline == Piece(1, 0)

RECURSIVE len(_)
len(text) == IF text = << >> THEN 0 ELSE Head(text).n + len(Tail(text))

\* "\n".join(parts)
RECURSIVE join(_)
join(parts) ==
    IF parts = << >> THEN << >>
    ELSE IF Len(parts) = 1 THEN parts[1]
    ELSE parts[1] \o Newline \o join(Tail(parts))

\* text.find('```'): the index of the first fence, 0 for none
find_fence(text) ==
    IF \E i \in 1..Len(text) : text[i].fence
    THEN CHOOSE i \in 1..Len(text) :
            text[i].fence /\ \A j \in 1..(i - 1) : ~text[j].fence
    ELSE 0

\* len(escape_markdown_v2(text)): a fence and what follows it up to the
\* closing fence, or up to the end when there is none, is copied; every
\* other escaped character gains a backslash
RECURSIVE escaped_len(_)
escaped_len(text) ==
    IF text = << >> THEN 0
    ELSE IF Head(text).fence
    THEN LET rest == Tail(text)
             end == find_fence(rest)
         IN  IF end = 0 THEN 3 + len(rest)
             ELSE 3 + len(SubSeq(rest, 1, end - 1)) + 3
                  + escaped_len(SubSeq(rest, end + 1, Len(rest)))
    ELSE Head(text).n + Head(text).r + escaped_len(Tail(text))

\* send_telegram_notification(message): what reaches bot.send_message
Sent(message) == [len |-> len(message), escaped |-> escaped_len(message)]

\* the number of decimal digits of a count of accounts
DecLen(n) == IF n < 10 THEN 1 ELSE IF n < 100 THEN 2 ELSE 3

\* the header: 102 characters around the three counts
ReportHeader(total, success, errors) ==
    Piece(102 + DecLen(total) + DecLen(success) + DecLen(errors), 0)

\* f"\n🏷️ ГРУППА: {group_name.upper()}\n```"
GroupHead(name) == Piece(12 + name.n + 1, name.r) \o Fence

\* f"```\n🏷️ ГРУППА: {group_name.upper()} (продолжение)\n"
ContinuationHead(name) == Fence \o Piece(12 + name.n + 15, name.r + 2)

\* the loop over group_data['changes'] (monitor.py:143-148)
RECURSIVE AddChanges(_, _, _, _)
AddChanges(name, changes, message_parts, sent) ==
    IF changes = << >> THEN [message_parts |-> message_parts, sent |-> sent]
    ELSE IF len(join(message_parts)) + 1 + len(Head(changes)) > flush_limit
    THEN AddChanges(name, Tail(changes),
                    << ContinuationHead(name), Newline \o Head(changes) >>,
                    Append(sent,
                           Sent(join(Append(message_parts, Newline \o Fence)))))
    ELSE AddChanges(name, Tail(changes),
                    Append(message_parts, Newline \o Head(changes)), sent)

\* the loop over message_parts of a message that is too long
\* (monitor.py:159-173)
RECURSIVE SplitParts(_, _, _, _)
SplitParts(lines, current_part, current_length, parts) ==
    IF lines = << >>
    THEN IF current_part # << >> THEN Append(parts, join(current_part))
         ELSE parts
    ELSE LET line_length == len(Head(lines)) + 1
         IN  IF current_length + line_length > part_limit
             THEN SplitParts(Tail(lines), << Head(lines) >>, line_length,
                             Append(parts, join(current_part)))
             ELSE SplitParts(Tail(lines), Append(current_part, Head(lines)),
                             current_length + line_length, parts)

SentAll(parts) == [i \in 1..Len(parts) |-> Sent(parts[i])]

\* the messages of one group (monitor.py:129-179)
GroupMessages(g) ==
    IF g.success = << >> /\ g.changes = << >> /\ g.errors = << >> THEN << >>
    ELSE LET head == << GroupHead(g.name) >>
             with_success ==
                 IF g.success # << >>
                 THEN Append(head, Piece(12, 0) \o join(g.success))
                 ELSE head
             with_changes ==
                 IF g.changes # << >>
                 THEN AddChanges(g.name, g.changes,
                                 Append(with_success, Piece(13, 0)), << >>)
                 ELSE [message_parts |-> with_success, sent |-> << >>]
             with_errors ==
                 IF g.errors # << >>
                 THEN Append(with_changes.message_parts,
                             Piece(12, 0) \o join(g.errors))
                 ELSE with_changes.message_parts
             message_parts == Append(with_errors, Newline \o Fence)
             full_message == join(message_parts)
         IN  with_changes.sent \o
             (IF len(full_message) > message_limit
              THEN SentAll(SplitParts(message_parts, << >>, 0, << >>))
              ELSE << Sent(full_message) >>)

RECURSIVE AllGroupMessages(_)
AllGroupMessages(groups) ==
    IF groups = << >> THEN << >>
    ELSE GroupMessages(Head(groups)) \o AllGroupMessages(Tail(groups))

\* the lines of the gifts of one account (monitor.py:184-187)
GiftParts(entry) ==
    << Piece(4 + entry.username.n, entry.username.r) >>
    \o [i \in 1..Len(entry.gifts) |->
           Piece(10 + entry.gifts[i].n, 2 + entry.gifts[i].r)]

RECURSIVE AllGiftParts(_)
AllGiftParts(expiring_gifts) ==
    IF expiring_gifts = << >> THEN << >>
    ELSE GiftParts(Head(expiring_gifts)) \o AllGiftParts(Tail(expiring_gifts))

\* the message of the expiring gifts (monitor.py:182-189)
GiftMessages(expiring_gifts) ==
    IF expiring_gifts = << >> THEN << >>
    ELSE << Sent(join(<< Fence \o Piece(26, 0) >>
                      \o AllGiftParts(expiring_gifts) \o << Fence >>)) >>

RECURSIVE CountLines(_, _)
CountLines(groups, key) ==
    IF groups = << >> THEN 0
    ELSE Len(Head(groups)[key]) + CountLines(Tail(groups), key)

\* every message _send_grouped_reports hands to
\* send_telegram_notification, in order
send_grouped_reports(groups, total_accounts, expiring_gifts) ==
    << Sent(ReportHeader(total_accounts, CountLines(groups, "success"),
                         CountLines(groups, "errors"))) >>
    \o AllGroupMessages(groups)
    \o GiftMessages(expiring_gifts)

\* ------------------------------------------------------------------------
\* Database (models.py)
\* ------------------------------------------------------------------------
\* save_account_characters: INSERT INTO accounts (username) ON CONFLICT DO
\* NOTHING; the other columns take their defaults.
EnsureAccountRow(accts, u) ==
    IF u \in DOMAIN accts THEN accts
    ELSE accts @@ (u :> [alias |-> NULL, group |-> NULL, last_success |-> NULL,
                         server |-> NULL, use_promo |-> "FALSE",
                         transfer_to_game |-> "FALSE", mdm |-> NULL])

\* the columns of accounts beside the key (group is group_id, mdm is
\* mdm_coins)
Columns == {"alias", "last_success", "server", "use_promo",
            "transfer_to_game", "group", "mdm"}

\* datetime.now() of a check; the model tells a timestamp only from NULL
Timestamp == "ts"

\* the keyword arguments of save_account_data, all at their default None
NoArgs ==
    [alias |-> NULL, last_success |-> NULL, server |-> NULL,
     use_promo |-> NULL, transfer_to_game |-> NULL, group |-> NULL,
     mdm |-> NULL]

\* the arguments of the call in check_account (monitor.py:553)
CheckArgs(mdm) == [NoArgs EXCEPT !.last_success = Timestamp, !.mdm = mdm]

\* an upsert of the arguments as they are passed
save_account_data_overwrite(accts, groups, u, args) ==
    IF args.group # NULL /\ args.group \notin groups
    THEN accts
    ELSE [v \in DOMAIN accts \cup {u} |-> IF v = u THEN args ELSE accts[v]]

\* cursor.fetchone() of the SELECT in save_account_data: the row, or None
Fetched(accts, u) ==
    IF u \in DOMAIN accts THEN [found |-> TRUE, row |-> accts[u]]
    ELSE [found |-> FALSE, row |-> NoArgs]

\* the defaults dict of save_account_data: the arguments, and for a row
\* that was found the current value in place of every argument that is None
Defaults(result, args) ==
    IF result.found
    THEN [alias |-> IF args.alias = NULL THEN result.row.alias
                    ELSE args.alias,
          last_success |-> IF args.last_success = NULL
                           THEN result.row.last_success
                           ELSE args.last_success,
          server |-> IF args.server = NULL THEN result.row.server
                     ELSE args.server,
          use_promo |-> IF args.use_promo = NULL
                        THEN result.row.use_promo ELSE args.use_promo,
          transfer_to_game |-> IF args.transfer_to_game = NULL
                               THEN result.row.transfer_to_game
                               ELSE args.transfer_to_game,
          group |-> IF args.group = NULL THEN result.row.group
                    ELSE args.group,
          mdm |-> IF args.mdm = NULL THEN result.row.mdm ELSE args.mdm]
    ELSE args

\* INSERT ... ON CONFLICT (username) DO UPDATE of all seven columns. A
\* group_id that is the id of no group violates the foreign key: the
\* except logs, returns False and nothing is written.
Upsert(accts, groups, u, row) ==
    IF row.group # NULL /\ row.group \notin groups
    THEN accts
    ELSE [v \in DOMAIN accts \cup {u} |-> IF v = u THEN row ELSE accts[v]]

\* save_account_data with nothing committed between its SELECT and its
\* INSERT
save_account_data(accts, groups, u, args) ==
    Upsert(accts, groups, u, Defaults(Fetched(accts, u), args))

\* the row of ORDER BY timestamp DESC LIMIT 1 for a task name
RECURSIVE LatestRow(_, _)
LatestRow(rows, name) ==
    IF rows = << >> THEN << >>
    ELSE IF rows[Len(rows)].name = name THEN << rows[Len(rows)] >>
    ELSE LatestRow(SubSeq(rows, 1, Len(rows) - 1), name)

\* a save_task_data that inserts whatever the latest row holds
save_task_data_always(rows, task) == Append(rows, task)

\* save_task_data for an account that has a row
save_task_data(rows, task) ==
    LET existing == LatestRow(rows, task.name)
    IN  IF existing # << >> /\ existing[1].x = task.x /\ existing[1].y = task.y
        THEN rows
        ELSE Append(rows, task)

RECURSIVE SaveTasks(_, _)
SaveTasks(rows, tasks) ==
    IF tasks = << >> THEN rows
    ELSE SaveTasks(save_task_data(rows, Head(tasks)), Tail(tasks))

\* the (current, total) pairs that the rows of task name n hold
PairsOf(rows, n) ==
    {<<rows[k].x, rows[k].y>> : k \in {k \in 1..Len(rows) : rows[k].name = n}}

\* get_accounts_with_tasks_and_groups + the dict comprehension of
\* check_all_accounts: {task[0]: (task[1], task[2]) for task in tasks}; a
\* later element of the aggregated array replaces an earlier one. The
\* array_agg of the query has no ORDER BY, so the database chooses the order
\* of all the account's task rows in the array: per task name, the pair of
\* any of its rows may be the one that stays.
PrevTasks(rows) ==
    {f \in [Names(rows) -> UNION {PairsOf(rows, n) : n \in Names(rows)}] :
        \A n \in Names(rows) : f[n] \in PairsOf(rows, n)}

\* what previous_data may hold for account u
PreviousRows(u) ==
    {[group_name |-> IF db_accounts[u].group = NULL THEN FallbackBucket
                     ELSE db_accounts[u].group,
      mdm_coins  |-> db_accounts[u].mdm,
      tasks      |-> f] : f \in PrevTasks(db_tasks[u])}

\* the results the query may give, as previous_data
get_accounts_with_tasks_and_groups ==
    {d \in [DOMAIN db_accounts ->
                UNION {PreviousRows(u) : u \in DOMAIN db_accounts}] :
        \A u \in DOMAIN db_accounts : d[u] \in PreviousRows(u)}

\* ------------------------------------------------------------------------
\* Locals of the handlers
\* ------------------------------------------------------------------------
NoResult ==
    [username |-> "", status |-> "none", message |-> "", mdm_coins |-> "0",
     tasks |-> << >>, gifts |-> FALSE]

\* steps: the extraction steps the check has performed under the driver
\* attempts: the connection attempts get_driver made for the check
NoCheck ==
    [file |-> "", result |-> NoResult, steps |-> {}, attempts |-> 0,
     current |-> [found |-> FALSE, row |-> NoArgs]]

NoBatch ==
    [files |-> << >>, i |-> 0, prev |-> << >>, groups |-> << >>, n |-> 0,
     gifts |-> {}, outcome |-> "none"]

NoPromo ==
    [accounts |-> << >>, i |-> 0, activated |-> 0, errors |-> 0,
     status |-> "active", attempted |-> {}, log |-> << >>,
     outcome |-> "none"]

EmptyBucket == [success |-> << >>, errors |-> << >>, changes |-> << >>]

\* ------------------------------------------------------------------------
\* check_account (monitor.py:495-586)
\* ------------------------------------------------------------------------
\* if not skip_check and self.is_checking: raise Exception(...)
\* The caller is refresh_account, whose except clause answers 500.
CA_Test(t) ==
    /\ pc[t] = "ca_test"
    /\ IF is_checking
       THEN /\ pc' = [pc EXCEPT ![t] = "idle"]
            /\ op' = [op EXCEPT ![t] = "none"]
            /\ ca' = [ca EXCEPT ![t] = NoCheck]
            /\ response' = [response EXCEPT ![t] = "500"]
       ELSE /\ pc' = [pc EXCEPT ![t] = "ca_set"]
            /\ UNCHANGED <<op, ca, response>>
    /\ UNCHANGED orphans
    /\ UNCHANGED <<is_checking, envvars, dbvars, session, batch, promo,
                   busyAtArrival>>

\* self.is_checking = True
CA_Set(t) ==
    /\ pc[t] = "ca_set"
    /\ is_checking' = TRUE
    /\ pc' = [pc EXCEPT ![t] = "ca_open"]
    /\ UNCHANGED orphans
    /\ UNCHANGED <<op, envvars, dbvars, session, ca, batch, promo, response,
                   busyAtArrival>>

ErrorResult(u, msg) ==
    [username |-> u, status |-> "error", message |-> msg, mdm_coins |-> "0",
     tasks |-> << >>, gifts |-> FALSE]

\* get_driver (monitor.py:241-272): up to max_attempts times, create a
\* session with webdriver.Remote and set its two timeouts. s.driver says
\* whether the grid creates sessions at all; s.lost is the number of
\* sessions whose timeout calls raise WebDriverException after the session
\* was created: the except clause goes to the next attempt and the session is
\* not quit. The driver is returned by the first attempt that raises
\* nothing; after max_attempts failures ConnectionError is raised.
\* The loop from the attempt of index `attempt` on (the first is 0), with
\* `limit` in the place of max_attempts. attempts counts the calls of
\* webdriver.Remote.
RECURSIVE get_driver_from(_, _, _)
get_driver_from(s, attempt, limit) ==
    IF attempt < limit
    THEN IF s.driver /\ attempt >= s.lost
         THEN [returned |-> TRUE, attempts |-> attempt + 1,
               left_open |-> attempt > 0]
         ELSE get_driver_from(s, attempt + 1, limit)
    ELSE [returned |-> FALSE, attempts |-> attempt,
          left_open |-> s.driver /\ attempt > 0]

\* a get_driver that makes one attempt more
get_driver_once_more(s) == get_driver_from(s, 0, max_attempts + 1)

get_driver(s) == get_driver_from(s, 0, max_attempts)

\* open() of the account's cookie file and pickle.load succeed: the file is
\* in the cookies directory and unpickles
CookieLoads(u) ==
    /\ \E k \in 1..Len(cookie_files) : cookie_files[k] = u
    /\ site[u].cookie

\* the accounts with a session left open, after get_driver ran for u
OrphansAfter(u) ==
    IF CookieLoads(u) /\ get_driver(site[u]).left_open
    THEN orphans \cup {u} ELSE orphans

\* pickle.load of the cookie file, then get_driver(); either may raise, and
\* the outer except turns that into an error result.
CA_Open(t) ==
    /\ pc[t] = "ca_open"
    /\ LET u == ca[t].file
       IN  /\ orphans' = OrphansAfter(u)
           /\ IF CookieLoads(u) /\ get_driver(site[u]).returned
              THEN /\ session' = [session EXCEPT ![t] = TRUE]
                   /\ pc' = [pc EXCEPT ![t] = "ca_scrape"]
                   /\ ca' = [ca EXCEPT ![t].attempts =
                                get_driver(site[u]).attempts]
              ELSE /\ ca' = [ca EXCEPT
                         ![t].result = ErrorResult(u, "exception"),
                         ![t].attempts = IF CookieLoads(u)
                                         THEN get_driver(site[u]).attempts
                                         ELSE 0]
                   /\ pc' = [pc EXCEPT ![t] = "ca_finally"]
                   /\ UNCHANGED session
    /\ UNCHANGED <<is_checking, op, envvars, dbvars, batch, promo, response,
                   busyAtArrival>>

\* collect_characters_info: save_account_characters when characters were read
AccountsAfterCharacters(accts, u) ==
    IF site[u].chars THEN EnsureAccountRow(accts, u) ELSE accts

\* a page that is never taken for the login page
NeverLoginPage(s) == FALSE

\* "Войти" in driver.title, on the page loaded after the cookies were added
LoginPage(s) == ~s.auth

\* The body under the driver, to driver.quit() in its finally.
CA_Scrape(t) ==
    /\ pc[t] = "ca_scrape"
    /\ LET u == ca[t].file
           s == site[u]
       IN  IF LoginPage(s)
           THEN /\ ca' = [ca EXCEPT ![t].result = ErrorResult(u, "auth")]
                /\ UNCHANGED dbvars
           ELSE IF s.tasks = << >>
           THEN \* get_marathon_data returned no task; get_mdm_coins has run
                /\ ca' = [ca EXCEPT ![t].result = ErrorResult(u, "notasks"),
                                    ![t].steps = {"characters", "tasks",
                                                  "currency"}]
                /\ db_accounts' = AccountsAfterCharacters(db_accounts, u)
                /\ db_chars' = [db_chars EXCEPT ![u] = @ \/ s.chars]
                /\ UNCHANGED <<db_tasks, db_promo_codes, db_account_promo,
                               db_groups, db_gifts>>
           ELSE /\ db_accounts' =
                      save_account_data(AccountsAfterCharacters(db_accounts, u),
                                        db_groups, u, CheckArgs(s.mdm))
                /\ db_chars' = [db_chars EXCEPT ![u] = @ \/ s.chars]
                /\ db_tasks' = [db_tasks EXCEPT ![u] = SaveTasks(@, s.tasks)]
                /\ ca' = [ca EXCEPT ![t].result =
                            [username |-> u, status |-> "success",
                             message |-> "", mdm_coins |-> s.mdm,
                             tasks |-> s.tasks, gifts |-> s.gifts],
                                    ![t].steps = {"characters", "tasks",
                                                  "currency", "gifts"}]
                /\ UNCHANGED <<db_promo_codes, db_account_promo, db_groups,
                               db_gifts>>
    /\ session' = [session EXCEPT ![t] = FALSE]
    /\ pc' = [pc EXCEPT ![t] = "ca_finally"]
    /\ UNCHANGED orphans
    /\ UNCHANGED <<is_checking, op, envvars, batch, promo, response,
                   busyAtArrival>>

\* The body under the driver in two steps, for the writes other handlers
\* commit while it runs. First step: the pages are read, and
\* save_account_characters and the SELECT of save_account_data have run;
\* current holds what the SELECT fetched.
CA_Read(t) ==
    /\ pc[t] = "ca_scrape"
    /\ LET u == ca[t].file
           s == site[u]
           accts == AccountsAfterCharacters(db_accounts, u)
       IN  IF LoginPage(s)
           THEN /\ ca' = [ca EXCEPT ![t].result = ErrorResult(u, "auth")]
                /\ session' = [session EXCEPT ![t] = FALSE]
                /\ pc' = [pc EXCEPT ![t] = "ca_finally"]
                /\ UNCHANGED dbvars
           ELSE IF s.tasks = << >>
           THEN /\ ca' = [ca EXCEPT ![t].result = ErrorResult(u, "notasks"),
                                    ![t].steps = {"characters", "tasks",
                                                  "currency"}]
                /\ db_accounts' = accts
                /\ db_chars' = [db_chars EXCEPT ![u] = @ \/ s.chars]
                /\ session' = [session EXCEPT ![t] = FALSE]
                /\ pc' = [pc EXCEPT ![t] = "ca_finally"]
                /\ UNCHANGED <<db_tasks, db_promo_codes, db_account_promo,
                               db_groups, db_gifts>>
           ELSE /\ ca' = [ca EXCEPT ![t].current = Fetched(accts, u),
                                    ![t].steps = {"characters", "tasks",
                                                  "currency"}]
                /\ db_accounts' = accts
                /\ db_chars' = [db_chars EXCEPT ![u] = @ \/ s.chars]
                /\ pc' = [pc EXCEPT ![t] = "ca_save"]
                /\ UNCHANGED <<db_tasks, db_promo_codes, db_account_promo,
                               db_groups, db_gifts, session>>
    /\ UNCHANGED orphans
    /\ UNCHANGED <<is_checking, op, envvars, batch, promo, response,
                   busyAtArrival>>

\* Second step: the INSERT ... ON CONFLICT DO UPDATE of save_account_data
\* with the defaults made from what the SELECT fetched, save_task_data for
\* every task (False, and no row, for a username without an account row),
\* the gifts, the result, and driver.quit() in the finally.
CA_Write(t) ==
    /\ pc[t] = "ca_save"
    /\ LET u == ca[t].file
           s == site[u]
           accts == Upsert(db_accounts, db_groups, u,
                           Defaults(ca[t].current, CheckArgs(s.mdm)))
       IN  /\ db_accounts' = accts
           /\ db_tasks' = IF u \in DOMAIN accts
                          THEN [db_tasks EXCEPT ![u] = SaveTasks(@, s.tasks)]
                          ELSE db_tasks
           /\ ca' = [ca EXCEPT ![t].result =
                       [username |-> u, status |-> "success",
                        message |-> "", mdm_coins |-> s.mdm,
                        tasks |-> s.tasks, gifts |-> s.gifts],
                               ![t].steps = {"characters", "tasks",
                                             "currency", "gifts"},
                               ![t].current = NoCheck.current]
    /\ session' = [session EXCEPT ![t] = FALSE]
    /\ pc' = [pc EXCEPT ![t] = "ca_finally"]
    /\ UNCHANGED orphans
    /\ UNCHANGED <<is_checking, op, envvars, db_chars, db_promo_codes,
                   db_account_promo, db_groups, db_gifts, batch, promo,
                   response, busyAtArrival>>

\* finally: self.is_checking = False; then the return to the caller
CA_Finally(t) ==
    /\ pc[t] = "ca_finally"
    /\ is_checking' = FALSE
    /\ IF op[t] = "batch"
       THEN /\ pc' = [pc EXCEPT ![t] = "caa_process"]
            /\ UNCHANGED <<op, ca, response>>
       ELSE \* refresh_account answers 200 with the result as data
            /\ pc' = [pc EXCEPT ![t] = "idle"]
            /\ op' = [op EXCEPT ![t] = "none"]
            /\ ca' = [ca EXCEPT ![t] = NoCheck]
            /\ response' = [response EXCEPT ![t] = "200"]
    /\ UNCHANGED orphans
    /\ UNCHANGED <<envvars, dbvars, session, batch, promo, busyAtArrival>>

\* ------------------------------------------------------------------------
\* check_all_accounts (monitor.py:588-697)
\* ------------------------------------------------------------------------
\* if self.is_checking: logger.warning(...); return
CAA_Test(t) ==
    /\ t \in SchedThreads \cap live
    /\ pc[t] = "idle"
    /\ IF is_checking
       THEN /\ response' = [response EXCEPT ![t] = "rejected"]
            /\ UNCHANGED <<pc, op, batch>>
       ELSE /\ response' = [response EXCEPT ![t] = "pending"]
            /\ op' = [op EXCEPT ![t] = "batch"]
            /\ pc' = [pc EXCEPT ![t] = "caa_set"]
            /\ batch' = [batch EXCEPT ![t] = [NoBatch EXCEPT !.outcome = "running"]]
    /\ UNCHANGED orphans
    /\ UNCHANGED <<is_checking, envvars, dbvars, session, ca, promo,
                   busyAtArrival>>

\* self.is_checking = True
CAA_Set(t) ==
    /\ pc[t] = "caa_set"
    /\ is_checking' = TRUE
    /\ pc' = [pc EXCEPT ![t] = "caa_list"]
    /\ UNCHANGED orphans
    /\ UNCHANGED <<op, envvars, dbvars, session, ca, batch, promo, response,
                   busyAtArrival>>

\* groups gets a bucket for the group key of every persisted account
InitialGroups(prev) ==
    [g \in {prev[u].group_name : u \in DOMAIN prev} |-> EmptyBucket]

\* The listing of the cookie files and the reading of previous_data; with no
\* file, the warning is sent and the method returns through its finally.
\* With files, the for loop calls check_account(cookie_file, skip_check=True)
\* for the first one.
CAA_List(t) ==
    /\ pc[t] = "caa_list"
    /\ IF cookie_files = << >>
       THEN /\ batch' = [batch EXCEPT ![t].outcome = "empty"]
            /\ pc' = [pc EXCEPT ![t] = "caa_finally"]
            /\ UNCHANGED ca
       ELSE /\ \E previous_data \in get_accounts_with_tasks_and_groups :
                 batch' = [batch EXCEPT
                    ![t].files = cookie_files,
                    ![t].i = 1,
                    ![t].prev = previous_data,
                    ![t].groups = InitialGroups(previous_data)]
            /\ ca' = [ca EXCEPT ![t] = [NoCheck EXCEPT !.file = cookie_files[1]]]
            /\ pc' = [pc EXCEPT ![t] = "ca_set"]
    /\ UNCHANGED orphans
    /\ UNCHANGED <<is_checking, op, envvars, dbvars, session, promo, response,
                   busyAtArrival>>

\* The balance line of the diff. prev_data.get('mdm_coins', '0') is the
\* stored value, None included, when the account has a row. int() of a text
\* that is no number raises ValueError, which is caught; int(None) raises
\* TypeError, which is not.
MdmChange(cur, has_row, stored) ==
    LET prev_mdm == IF has_row THEN stored ELSE "0"
    IN  IF cur = prev_mdm THEN [raised |-> FALSE, lines |-> << >>]
        ELSE IF ~IsNumeric(cur)
        THEN [raised |-> FALSE,
              lines |-> << [kind |-> "raw", diff |-> 0, prev |-> prev_mdm,
                            cur |-> cur] >>]
        ELSE IF prev_mdm = NULL THEN [raised |-> TRUE, lines |-> << >>]
        ELSE IF ~IsNumeric(prev_mdm)
        THEN [raised |-> FALSE,
              lines |-> << [kind |-> "raw", diff |-> 0, prev |-> prev_mdm,
                            cur |-> cur] >>]
        ELSE [raised |-> FALSE,
              lines |-> << [kind |-> "diff",
                            diff |-> IntOf(cur) - IntOf(prev_mdm),
                            prev |-> prev_mdm, cur |-> cur] >>]

\* a line whose bar and difference are taken from the previous pair
TaskLineOfPrevious(task, prev_tasks) ==
    IF task.name \in DOMAIN prev_tasks
    THEN IF task.x # prev_tasks[task.name][1] \/ task.y # prev_tasks[task.name][2]
         THEN << [name |-> task.name, x |-> task.x, y |-> task.y,
                  kind |-> "changed",
                  bar |-> get_progress_bar(prev_tasks[task.name][1],
                                           prev_tasks[task.name][2]),
                  delta |-> prev_tasks[task.name][1] - task.x,
                  plus |-> prev_tasks[task.name][1] - task.x > 0,
                  shown |-> prev_tasks[task.name][1] - task.x # 0] >>
         ELSE << >>
    ELSE << [name |-> task.name, x |-> task.x, y |-> task.y, kind |-> "new",
             bar |-> get_progress_bar(0, 1), delta |-> 0, plus |-> FALSE,
             shown |-> FALSE] >>

\* One task of current_tasks against prev_tasks (monitor.py:663-677). The
\* text in brackets is the sign "+" when the difference is positive (plus)
\* and the difference when it is not 0 (shown).
TaskLine(task, prev_tasks) ==
    IF task.name \in DOMAIN prev_tasks
    THEN IF task.x # prev_tasks[task.name][1] \/ task.y # prev_tasks[task.name][2]
         THEN << [name |-> task.name, x |-> task.x, y |-> task.y,
                  kind |-> "changed", bar |-> get_progress_bar(task.x, task.y),
                  delta |-> task.x - prev_tasks[task.name][1],
                  plus |-> task.x - prev_tasks[task.name][1] > 0,
                  shown |-> task.x - prev_tasks[task.name][1] # 0] >>
         ELSE << >>
    ELSE << [name |-> task.name, x |-> task.x, y |-> task.y, kind |-> "new",
             bar |-> get_progress_bar(0, 1), delta |-> 0, plus |-> FALSE,
             shown |-> FALSE] >>

RECURSIVE TaskChanges(_, _)
TaskChanges(tasks, prev_tasks) ==
    IF tasks = << >> THEN << >>
    ELSE TaskLine(Head(tasks), prev_tasks) \o TaskChanges(Tail(tasks), prev_tasks)

\* The step after one check_account of the loop: the next file, or the report
AfterAccount(t, b) ==
    IF b.i < Len(b.files)
    THEN /\ batch' = [batch EXCEPT ![t] = [b EXCEPT !.i = b.i + 1]]
         /\ ca' = [ca EXCEPT ![t] = [NoCheck EXCEPT !.file = b.files[b.i + 1]]]
         /\ pc' = [pc EXCEPT ![t] = "ca_set"]
    ELSE /\ batch' = [batch EXCEPT ![t] = b]
         /\ ca' = [ca EXCEPT ![t] = NoCheck]
         /\ pc' = [pc EXCEPT ![t] = "caa_report"]

\* The exception leaves the loop: no report; the finally still runs
Abort(t, b) ==
    /\ batch' = [batch EXCEPT ![t] = [b EXCEPT !.outcome = "aborted"]]
    /\ ca' = [ca EXCEPT ![t] = NoCheck]
    /\ pc' = [pc EXCEPT ![t] = "caa_finally"]

\* The loop body after check_account returned (monitor.py:630-690)
CAA_Process(t) ==
    /\ pc[t] = "caa_process"
    /\ LET b == batch[t]
           r == ca[t].result
           u == r.username
           has_row == u \in DOMAIN b.prev
           group_name == IF has_row THEN b.prev[u].group_name ELSE FallbackBucket
           counted == [b EXCEPT !.n = b.n + 1]
       IN  IF group_name \notin DOMAIN b.groups
           THEN \* groups[group_name] raises KeyError
                Abort(t, counted)
           ELSE IF r.status # "success"
           THEN AfterAccount(t,
                    [counted EXCEPT !.groups[group_name].errors =
                        Append(@, [name |-> u, message |-> r.message])])
           ELSE LET mdm == MdmChange(r.mdm_coins, has_row,
                                     IF has_row THEN b.prev[u].mdm_coins ELSE "0")
                    prev_tasks == IF has_row THEN b.prev[u].tasks ELSE << >>
                    task_changes == TaskChanges(r.tasks, prev_tasks)
                    succ == [counted EXCEPT !.groups[group_name].success =
                                Append(@, u)]
                    chg == IF mdm.lines = << >> /\ task_changes = << >>
                           THEN succ
                           ELSE [succ EXCEPT !.groups[group_name].changes =
                                    Append(@, [username |-> u,
                                               mdm |-> mdm.lines,
                                               tasks |-> task_changes])]
                IN  IF mdm.raised
                    THEN Abort(t, succ)
                    ELSE AfterAccount(t,
                            [chg EXCEPT !.gifts =
                                IF r.gifts THEN @ \cup {u} ELSE @])
    /\ UNCHANGED orphans
    /\ UNCHANGED <<is_checking, op, envvars, dbvars, session, promo, response,
                   busyAtArrival>>

\* self._send_grouped_reports(groups, len(accounts_data), expiring_gifts)
CAA_Report(t) ==
    /\ pc[t] = "caa_report"
    /\ batch' = [batch EXCEPT ![t].outcome = "reported"]
    /\ pc' = [pc EXCEPT ![t] = "caa_finally"]
    /\ UNCHANGED orphans
    /\ UNCHANGED <<is_checking, op, envvars, dbvars, session, ca, promo,
                   response, busyAtArrival>>

\* check_all_accounts with a cleanup that the early return of the empty
\* listing would skip
CAA_FinallySkippedOnReturn(t) ==
    /\ pc[t] = "caa_finally"
    /\ is_checking' = IF batch[t].outcome = "empty" THEN is_checking ELSE FALSE
    /\ pc' = [pc EXCEPT ![t] =
                IF batch[t].outcome = "aborted" THEN "crashed" ELSE "idle"]
    /\ op' = [op EXCEPT ![t] = "none"]
    /\ batch' = [batch EXCEPT ![t] = NoBatch]
    /\ response' = [response EXCEPT ![t] = batch[t].outcome]
    /\ UNCHANGED orphans
    /\ UNCHANGED <<envvars, dbvars, session, ca, promo, busyAtArrival>>

\* finally: self.is_checking = False. An exception then leaves the method
\* and ends the calling thread, which has no handler for it.
CAA_Finally(t) ==
    /\ pc[t] = "caa_finally"
    /\ is_checking' = FALSE
    /\ pc' = [pc EXCEPT ![t] =
                IF batch[t].outcome = "aborted" THEN "crashed" ELSE "idle"]
    /\ op' = [op EXCEPT ![t] = "none"]
    /\ batch' = [batch EXCEPT ![t] = NoBatch]
    /\ response' = [response EXCEPT ![t] = batch[t].outcome]
    /\ UNCHANGED orphans
    /\ UNCHANGED <<envvars, dbvars, session, ca, promo, busyAtArrival>>

\* ------------------------------------------------------------------------
\* Which threads are inside a check
\* ------------------------------------------------------------------------
\* check_all_accounts passed its test of the flag and has not returned
InBatch(t) ==
    /\ op[t] = "batch"
    /\ pc[t] \in {"caa_set", "caa_list", "ca_set", "ca_open", "ca_scrape",
                  "ca_finally", "caa_process", "caa_report", "caa_finally"}

\* the same, from the assignment is_checking = True on
BatchHoldsFlag(t) ==
    /\ op[t] = "batch"
    /\ pc[t] \in {"caa_list", "ca_set", "ca_open", "ca_scrape", "ca_finally",
                  "caa_process", "caa_report", "caa_finally"}

\* a manual check_account passed its test of the flag and has not returned
InManualCheck(t) ==
    /\ op[t] = "refresh"
    /\ pc[t] \in {"ca_set", "ca_open", "ca_scrape", "ca_finally"}

InCheck(t) == InBatch(t) \/ InManualCheck(t)

\* the check of t has assigned is_checking = True and has not returned
HoldsFlag(t) ==
    \/ BatchHoldsFlag(t)
    \/ op[t] = "refresh" /\ pc[t] \in {"ca_open", "ca_scrape", "ca_finally"}

InPromo(t) == op[t] = "promo" /\ pc[t] \in {"ap_loop", "ap_open", "ap_page"}

\* ------------------------------------------------------------------------
\* refresh_account (app.py:169-204)
\* ------------------------------------------------------------------------
RECURSIVE Range(_)
Range(seq) == IF seq = << >> THEN {} ELSE {Head(seq)} \cup Range(Tail(seq))

\* The handler up to its call of monitor.check_account(cookie_file): 423
\* when the flag is set, 404 when the cookie file does not exist.
RA_Request(t, u) ==
    /\ t \in WebThreads \cap live
    /\ pc[t] = "idle"
    /\ busyAtArrival' = [busyAtArrival EXCEPT ![t] =
                            \E o \in Threads \ {t} : HoldsFlag(o)]
    /\ IF is_checking
       THEN /\ response' = [response EXCEPT ![t] = "423"]
            /\ UNCHANGED <<pc, op, ca>>
       ELSE IF u \notin Range(cookie_files)
       THEN /\ response' = [response EXCEPT ![t] = "404"]
            /\ UNCHANGED <<pc, op, ca>>
       ELSE /\ response' = [response EXCEPT ![t] = "pending"]
            /\ op' = [op EXCEPT ![t] = "refresh"]
            /\ ca' = [ca EXCEPT ![t] = [NoCheck EXCEPT !.file = u]]
            /\ pc' = [pc EXCEPT ![t] = "ca_test"]
    /\ UNCHANGED orphans
    /\ UNCHANGED <<is_checking, envvars, dbvars, session, batch, promo>>

\* ------------------------------------------------------------------------
\* activate_promo (app.py:257-305), activate_promo_code (monitor.py:703-774)
\* ------------------------------------------------------------------------
\* get_accounts_for_promo_activation: use_promo = TRUE and no activation row
PromoCandidates ==
    {u \in DOMAIN db_accounts :
        db_accounts[u].use_promo = "TRUE" /\ db_account_promo[u] = "none"}

\* the orders in which the SELECT, which has no ORDER BY, may return a set
Orderings(S) ==
    {q \in [1..Cardinality(S) -> S] : \A i, j \in DOMAIN q : i # j => q[i] # q[j]}

\* a handler that does not look the status of the code up
AP_RequestUnchecked(t, code) ==
    /\ t \in WebThreads \cap live
    /\ pc[t] = "idle"
    /\ busyAtArrival' = [busyAtArrival EXCEPT ![t] =
                            \E o \in Threads \ {t} : HoldsFlag(o)]
    /\ IF code = ""
       THEN /\ response' = [response EXCEPT ![t] = "400"]
            /\ UNCHANGED <<pc, op, promo>>
       ELSE IF PromoCandidates = {}
       THEN /\ response' = [response EXCEPT ![t] = "error"]
            /\ UNCHANGED <<pc, op, promo>>
       ELSE /\ op' = [op EXCEPT ![t] = "promo"]
            /\ \E q \in Orderings(PromoCandidates) :
                 promo' = [promo EXCEPT ![t] =
                             [NoPromo EXCEPT !.accounts = q, !.i = 1,
                                             !.outcome = "running"]]
            /\ response' = [response EXCEPT ![t] = "pending"]
            /\ pc' = [pc EXCEPT ![t] = "ap_loop"]
    /\ UNCHANGED orphans
    /\ UNCHANGED <<is_checking, envvars, dbvars, session, ca, batch>>

\* The handler up to its call of monitor.activate_promo_code
AP_Request(t, code) ==
    /\ t \in WebThreads \cap live
    /\ pc[t] = "idle"
    /\ busyAtArrival' = [busyAtArrival EXCEPT ![t] =
                            \E o \in Threads \ {t} : HoldsFlag(o)]
    /\ IF code = ""
       THEN /\ response' = [response EXCEPT ![t] = "400"]
            /\ UNCHANGED <<pc, op, promo>>
       ELSE IF db_promo_codes \in {"expired", "invalid"}
       THEN /\ response' = [response EXCEPT ![t] = "error"]
            /\ UNCHANGED <<pc, op, promo>>
       ELSE IF PromoCandidates = {}
       THEN /\ response' = [response EXCEPT ![t] = "error"]
            /\ UNCHANGED <<pc, op, promo>>
       ELSE /\ op' = [op EXCEPT ![t] = "promo"]
            /\ \E q \in Orderings(PromoCandidates) :
                 promo' = [promo EXCEPT ![t] =
                             [NoPromo EXCEPT !.accounts = q, !.i = 1,
                                             !.outcome = "running"]]
            /\ response' = [response EXCEPT ![t] = "pending"]
            /\ pc' = [pc EXCEPT ![t] = "ap_loop"]
    /\ UNCHANGED orphans
    /\ UNCHANGED <<is_checking, envvars, dbvars, session, ca, batch>>

\* save_account_promo_code: the INSERT needs the account row and the promo
\* code row its foreign keys reference; without them it raises.
CanSavePromo(u) == u \in DOMAIN db_accounts /\ db_promo_codes # "absent"

\* a loop that attempts every account whatever the earlier classifications
NeverShortCircuit(p) == FALSE

\* if global_promo_status != 'active' (monitor.py:719)
ShortCircuit(p) == p.status # "active"

\* one more account of the list is done
Logged(p, what) == [p EXCEPT !.i = p.i + 1, !.log = Append(@, what)]

\* The head of the for loop: the return after the last account, the
\* short-circuit when global_promo_status is no longer 'active' (its
\* save_account_promo_code stands outside the try: what it raises leaves the
\* method and the handler answers 500), or the next attempt.
AP_Loop(t) ==
    /\ pc[t] = "ap_loop"
    /\ LET p == promo[t]
           u == p.accounts[p.i]
       IN  IF p.i > Len(p.accounts)
           THEN /\ promo' = [promo EXCEPT ![t] = NoPromo]
                /\ response' = [response EXCEPT ![t] = "200"]
                /\ pc' = [pc EXCEPT ![t] = "idle"]
                /\ op' = [op EXCEPT ![t] = "none"]
                /\ UNCHANGED db_account_promo
           ELSE IF ShortCircuit(p)
           THEN IF CanSavePromo(u)
                THEN /\ db_account_promo' = [db_account_promo EXCEPT ![u] = "failed"]
                     /\ promo' = [promo EXCEPT ![t] =
                                    [Logged(p, "short_circuit") EXCEPT
                                        !.errors = p.errors + 1]]
                     /\ UNCHANGED <<response, pc, op>>
                ELSE /\ promo' = [promo EXCEPT ![t] = NoPromo]
                     /\ response' = [response EXCEPT ![t] = "500"]
                     /\ pc' = [pc EXCEPT ![t] = "idle"]
                     /\ op' = [op EXCEPT ![t] = "none"]
                     /\ UNCHANGED db_account_promo
           ELSE /\ pc' = [pc EXCEPT ![t] = "ap_open"]
                /\ UNCHANGED <<promo, response, op, db_account_promo>>
    /\ UNCHANGED orphans
    /\ UNCHANGED <<is_checking, envvars, db_accounts, db_tasks, db_chars,
                   db_promo_codes, db_groups, db_gifts, session, ca, batch,
                   busyAtArrival>>

\* pickle.load of the account's cookie file, then get_driver()
AP_Open(t) ==
    /\ pc[t] = "ap_open"
    /\ LET p == promo[t]
           u == p.accounts[p.i]
           tried == [p EXCEPT !.attempted = @ \cup {u}]
       IN  /\ orphans' = OrphansAfter(u)
           /\ IF CookieLoads(u) /\ get_driver(site[u]).returned
              THEN /\ session' = [session EXCEPT ![t] = TRUE]
                   /\ promo' = [promo EXCEPT ![t] = tried]
                   /\ pc' = [pc EXCEPT ![t] = "ap_page"]
              ELSE /\ promo' = [promo EXCEPT ![t] =
                                  [Logged(tried, "exception") EXCEPT
                                      !.errors = p.errors + 1]]
                   /\ pc' = [pc EXCEPT ![t] = "ap_loop"]
                   /\ UNCHANGED session
    /\ UNCHANGED <<is_checking, op, envvars, dbvars, ca, batch, response,
                   busyAtArrival>>

\* The activation request and the reading of the result page, to
\* driver.quit() in the finally (monitor.py:741-768)
AP_Page(t) ==
    /\ pc[t] = "ap_page"
    /\ LET p == promo[t]
           u == p.accounts[p.i]
           page == site[u].promo
           failed(what) == [Logged(p, what) EXCEPT !.errors = p.errors + 1]
       IN  CASE page \in {"none", "already"} ->
                    IF CanSavePromo(u)
                    THEN /\ db_account_promo' = [db_account_promo EXCEPT ![u] =
                              IF page = "none" THEN "success"
                              ELSE "already_activated"]
                         /\ promo' = [promo EXCEPT ![t] =
                              [Logged(p, page) EXCEPT !.activated = p.activated + 1]]
                         /\ UNCHANGED db_promo_codes
                    ELSE \* the INSERT raised; except: errors += 1
                         /\ promo' = [promo EXCEPT ![t] = failed("save_raised")]
                         /\ UNCHANGED <<db_account_promo, db_promo_codes>>
              [] page \in {"invalid", "expired"} ->
                    /\ db_promo_codes' = page
                    /\ promo' = [promo EXCEPT ![t] =
                                    [failed(page) EXCEPT !.status = page]]
                    /\ UNCHANGED db_account_promo
              [] OTHER ->
                    /\ promo' = [promo EXCEPT ![t] = failed(page)]
                    /\ UNCHANGED <<db_account_promo, db_promo_codes>>
    /\ session' = [session EXCEPT ![t] = FALSE]
    /\ pc' = [pc EXCEPT ![t] = "ap_loop"]
    /\ UNCHANGED orphans
    /\ UNCHANGED <<is_checking, op, envvars, db_accounts, db_tasks, db_chars,
                   db_groups, db_gifts, ca, batch, response, busyAtArrival>>

\* ------------------------------------------------------------------------
\* Groups and accounts (app.py:35-148, 206-234, 379-403; models.py:26-49,
\* 156-199, 457-500)
\* ------------------------------------------------------------------------
\* A group is identified with its name: groups.name is UNIQUE and groups.id
\* is the primary key, so ids and names correspond one to one.
GroupNames == {DefaultGroup, "G1", "G2"}
\* the group_name fields a create_group form can carry
GroupNameInputs == GroupNames \cup {""}
\* the group_id fields a form can carry: the groups, none, and an unused id
GroupIdInputs == GroupNames \cup {"", "G9"}

\* The handlers below run on a request thread from the form to the
\* redirect; input holds the form of the last request, output its answer.
Redirect == [kind |-> "redirect"]
ServerError == [kind |-> "500"]

Handled(t) ==
    /\ t \in WebThreads \cap live
    /\ pc[t] = "idle"
    /\ UNCHANGED orphans
    /\ UNCHANGED <<is_checking, pc, op, live, site, session, ca, batch,
                   promo, response, busyAtArrival>>

\* get_accounts: LEFT JOIN groups; prepare_accounts_data: the bucket of a row
\* is group_name if group_name else "Общая"
BucketOf(u) ==
    IF db_accounts[u].group \in db_groups
    THEN db_accounts[u].group ELSE DefaultGroup

\* prepare_accounts_data: "Общая" and every group that has an account
prepare_accounts_data ==
    [g \in {DefaultGroup}
            \cup {h \in db_groups : \E u \in DOMAIN db_accounts : BucketOf(u) = h}
        |-> {u \in DOMAIN db_accounts : BucketOf(u) = g}]

\* create_group: nothing for an empty name and for "Общая"; the INSERT
\* raises on a name that exists (UNIQUE) and the request answers 500.
CreateGroup(t, group_name) ==
    /\ Handled(t)
    /\ input' = [kind |-> "create_group", group_name |-> group_name]
    /\ IF group_name # "" /\ group_name # DefaultGroup
       THEN IF group_name \in db_groups
            THEN output' = ServerError /\ UNCHANGED db_groups
            ELSE output' = Redirect /\ db_groups' = db_groups \cup {group_name}
       ELSE output' = Redirect /\ UNCHANGED db_groups
    /\ UNCHANGED <<db_accounts, db_tasks, db_chars, db_promo_codes,
                   db_account_promo, db_gifts, cookie_files>>

\* a groups table whose deletions take the accounts of the group with them
DeleteGroupWithAccounts(t, group_id) ==
    /\ Handled(t)
    /\ input' = [kind |-> "delete_group", group_id |-> group_id]
    /\ output' = Redirect
    /\ db_groups' = db_groups \ {group_id}
    /\ db_accounts' = [u \in {v \in DOMAIN db_accounts :
                                  db_accounts[v].group # group_id} |->
                          db_accounts[u]]
    /\ UNCHANGED <<db_tasks, db_chars, db_promo_codes, db_account_promo,
                   db_gifts, cookie_files>>

\* delete_group: if group_id: DELETE FROM groups WHERE id = group_id;
\* accounts.group_id is REFERENCES groups(id) ON DELETE SET NULL.
DeleteGroup(t, group_id) ==
    /\ Handled(t)
    /\ input' = [kind |-> "delete_group", group_id |-> group_id]
    /\ output' = Redirect
    /\ db_groups' = db_groups \ {group_id}
    /\ db_accounts' = [u \in DOMAIN db_accounts |->
                          IF db_accounts[u].group = group_id
                          THEN [db_accounts[u] EXCEPT !.group = NULL]
                          ELSE db_accounts[u]]
    /\ UNCHANGED <<db_tasks, db_chars, db_promo_codes, db_account_promo,
                   db_gifts, cookie_files>>

\* update_group: "null" and a non-number become None; the UPDATE raises on
\* the id of no group (foreign key) and changes no row for an unknown login.
UpdateGroup(t, username, group_id) ==
    /\ Handled(t)
    /\ input' = [kind |-> "update_group", username |-> username,
                 group_id |-> group_id]
    /\ IF group_id = ""
       THEN /\ output' = Redirect
            /\ db_accounts' = [u \in DOMAIN db_accounts |->
                                  IF u = username
                                  THEN [db_accounts[u] EXCEPT !.group = NULL]
                                  ELSE db_accounts[u]]
       ELSE IF group_id \in db_groups \/ username \notin DOMAIN db_accounts
       THEN /\ output' = Redirect
            /\ db_accounts' = [u \in DOMAIN db_accounts |->
                                  IF u = username
                                  THEN [db_accounts[u] EXCEPT !.group = group_id]
                                  ELSE db_accounts[u]]
       ELSE output' = ServerError /\ UNCHANGED db_accounts
    /\ UNCHANGED <<db_groups, db_tasks, db_chars, db_promo_codes,
                   db_account_promo, db_gifts, cookie_files>>

RECURSIVE Without(_, _)
Without(files, u) ==
    IF files = << >> THEN << >>
    ELSE IF Head(files) = u THEN Without(Tail(files), u)
    ELSE <<Head(files)>> \o Without(Tail(files), u)

\* tables without ON DELETE CASCADE: only the two DELETE statements act
DeleteAccountOnly(t, username) ==
    /\ Handled(t)
    /\ input' = [kind |-> "delete_account", username |-> username]
    /\ output' = Redirect
    /\ db_accounts' = [u \in DOMAIN db_accounts \ {username} |-> db_accounts[u]]
    /\ db_tasks' = [db_tasks EXCEPT ![username] = << >>]
    /\ cookie_files' = Without(cookie_files, username)
    /\ UNCHANGED <<db_chars, db_gifts, db_account_promo, db_groups,
                   db_promo_codes>>

\* delete_account: DELETE FROM tasks, DELETE FROM accounts (the rows of
\* account_characters, account_gifts, account_promo_codes and tasks go with
\* the account: ON DELETE CASCADE), commit, then os.remove of the cookie file
DeleteAccount(t, username) ==
    /\ Handled(t)
    /\ input' = [kind |-> "delete_account", username |-> username]
    /\ output' = Redirect
    /\ db_accounts' = [u \in DOMAIN db_accounts \ {username} |-> db_accounts[u]]
    /\ db_tasks' = [db_tasks EXCEPT ![username] = << >>]
    /\ db_chars' = [db_chars EXCEPT ![username] = FALSE]
    /\ db_gifts' = [db_gifts EXCEPT ![username] = FALSE]
    /\ db_account_promo' = [db_account_promo EXCEPT ![username] = "none"]
    /\ cookie_files' = Without(cookie_files, username)
    /\ UNCHANGED <<db_groups, db_promo_codes>>

\* the alias fields a form can carry: none, and a name
AliasInputs == {"", "A1"}

\* update_alias: an empty alias becomes None; the group the handler looks up
\* is not used; save_account_data(username, alias=alias), whose result is
\* not looked at
UpdateAlias(t, username, alias) ==
    /\ Handled(t)
    /\ input' = [kind |-> "update_alias", username |-> username,
                 alias |-> alias]
    /\ output' = Redirect
    /\ db_accounts' =
          save_account_data(db_accounts, db_groups, username,
                            [NoArgs EXCEPT !.alias = IF alias = "" THEN NULL
                                                     ELSE alias])
    /\ UNCHANGED <<db_groups, db_tasks, db_chars, db_promo_codes,
                   db_account_promo, db_gifts, cookie_files>>

\* the fields and values an update_account_setting form can carry
valid_fields == {"server", "use_promo", "transfer_to_game", "alias"}
FieldInputs == valid_fields \cup {"group_id"}
ValueInputs == {"True", "false"}

\* value.lower() == 'true', stored as a boolean
LowerIsTrue(value) == IF value \in {"True", "true"} THEN "TRUE" ELSE "FALSE"

\* update_account_setting: ValueError (400) for a field outside
\* valid_fields; the value of a flag is compared with 'true'; UPDATE of the
\* one column, which changes no row for an unknown login
UpdateAccountSetting(t, username, field, value) ==
    /\ Handled(t)
    /\ input' = [kind |-> "update_account_setting", username |-> username,
                 field |-> field, value |-> value]
    /\ IF field \notin valid_fields
       THEN output' = [kind |-> "400"] /\ UNCHANGED db_accounts
       ELSE /\ output' = [kind |-> "json", status |-> "success"]
            /\ db_accounts' =
                  [u \in DOMAIN db_accounts |->
                      IF u # username THEN db_accounts[u]
                      ELSE CASE field = "server" ->
                                  [db_accounts[u] EXCEPT !.server = value]
                             [] field = "alias" ->
                                  [db_accounts[u] EXCEPT !.alias = value]
                             [] field = "use_promo" ->
                                  [db_accounts[u] EXCEPT
                                      !.use_promo = LowerIsTrue(value)]
                             [] OTHER ->
                                  [db_accounts[u] EXCEPT
                                      !.transfer_to_game = LowerIsTrue(value)]]
    /\ UNCHANGED <<db_groups, db_tasks, db_chars, db_promo_codes,
                   db_account_promo, db_gifts, cookie_files>>

\* ------------------------------------------------------------------------
\* Calls of the Database methods (models.py:219-302, 686-760)
\* ------------------------------------------------------------------------
\* Database.save_account_data(username, ...) called while no handler runs;
\* True unless the INSERT raised
SaveAccountData(u, args) ==
    /\ \A t \in Threads : pc[t] = "idle"
    /\ input' = [kind |-> "save_account_data", username |-> u, args |-> args]
    /\ db_accounts' = save_account_data(db_accounts, db_groups, u, args)
    /\ output' = [kind |-> "saved",
                  ok |-> u \in DOMAIN db_accounts'
                            /\ (db_accounts'[u].group = NULL
                                  \/ db_accounts'[u].group \in db_groups)]
    /\ UNCHANGED orphans
    /\ UNCHANGED <<is_checking, pc, op, live, cookie_files, site, db_tasks,
                   db_chars, db_promo_codes, db_account_promo, db_groups,
                   db_gifts, session, ca, batch, promo, response,
                   busyAtArrival>>

\* get_account_tasks: SELECT DISTINCT ON (task_name) ... ORDER BY task_name,
\* timestamp DESC: per task name the row with the greatest timestamp, which
\* is the row inserted last
get_account_tasks(u) ==
    [n \in Names(db_tasks[u]) |-> LatestRow(db_tasks[u], n)[1]]

\* Database.save_task_data(username, ...) called while no handler runs:
\* False for a username without an account row, else the comparison with
\* the latest row of the task and the INSERT
SaveTaskData(u, task) ==
    /\ \A t \in Threads : pc[t] = "idle"
    /\ Len(db_tasks[u]) < MaxRows
    /\ input' = [kind |-> "save_task_data", username |-> u, task |-> task]
    /\ IF u \in DOMAIN db_accounts
       THEN /\ db_tasks' = [db_tasks EXCEPT ![u] = save_task_data(@, task)]
            /\ output' = [kind |-> "saved", ok |-> TRUE]
       ELSE /\ UNCHANGED db_tasks
            /\ output' = [kind |-> "saved", ok |-> FALSE]
    /\ UNCHANGED orphans
    /\ UNCHANGED <<is_checking, pc, op, live, cookie_files, site, db_accounts,
                   db_chars, db_promo_codes, db_account_promo, db_groups,
                   db_gifts, session, ca, batch, promo, response,
                   busyAtArrival>>

\* ------------------------------------------------------------------------
\* Initial states
\* ------------------------------------------------------------------------
\* What MarathonMonitor.__init__ and the idle request threads start from
InitProgram ==
    /\ is_checking = FALSE
    /\ pc = [t \in Threads |-> "idle"]
    /\ op = [t \in Threads |-> "none"]
    /\ session = [t \in Threads |-> FALSE]
    /\ ca = [t \in Threads |-> NoCheck]
    /\ batch = [t \in Threads |-> NoBatch]
    /\ promo = [t \in Threads |-> NoPromo]
    /\ response = [t \in Threads |-> "none"]
    /\ busyAtArrival = [t \in Threads |-> FALSE]
    /\ orphans = {}

\* A page on which the login, the tasks and the balance are read
OkSite(tasks, mdm, chars, page) ==
    [cookie |-> TRUE, driver |-> TRUE, lost |-> 0, auth |-> TRUE,
     chars |-> chars, tasks |-> tasks, mdm |-> mdm, gifts |-> chars,
     promo |-> page]

\* The three ways a check ends before anything is read: the cookie file
\* does not unpickle, the grid gives no driver, the session is logged out
FailSites ==
    { [OkSite(<< >>, "0", FALSE, "exception") EXCEPT !.cookie = FALSE],
      [OkSite(<< >>, "0", FALSE, "exception") EXCEPT !.driver = FALSE],
      [OkSite(<< >>, "0", FALSE, "other") EXCEPT !.auth = FALSE] }

Row(group, mdm, use_promo) ==
    [alias |-> NULL, group |-> group,
     last_success |-> IF mdm = NULL THEN NULL ELSE Timestamp,
     server |-> NULL, use_promo |-> use_promo, transfer_to_game |-> "FALSE",
     mdm |-> mdm]

NoPromoTables ==
    /\ db_promo_codes = "absent"
    /\ db_account_promo = [u \in Accounts |-> "none"]

\* The groups table after _init_db and one create_group; no gift rows, which
\* nothing inserts (save_account_gifts has no caller).
GroupsAndGifts ==
    /\ db_groups = {DefaultGroup, "G1"}
    /\ db_gifts = [u \in Accounts |-> FALSE]

\* no text is being parsed
NoInput == [kind |-> "none"]
NoOutput == [kind |-> "none"]
NoPure == input = NoInput /\ output = NoOutput

IdleSite == [OkSite(<< >>, "0", FALSE, "other") EXCEPT !.auth = FALSE]

\* The concurrent program: two session files, a1 with a persisted row that
\* takes part in promo activations, a2 with none yet.
InitShared ==
    /\ InitProgram
    /\ cookie_files \in {<<"a1", "a2">>, << >>}
    /\ site = [u \in Accounts |->
                 IF u = "a1"
                 THEN OkSite(<< [name |-> "T1", x |-> 1, y |-> 2] >>, "7", TRUE, "none")
                 ELSE [OkSite(<< >>, "0", FALSE, "invalid") EXCEPT !.auth = FALSE]]
    /\ \E g \in {NULL, "G1"} : db_accounts = ("a1" :> Row(g, "0", "TRUE"))
    /\ db_tasks = [u \in Accounts |-> << >>]
    /\ db_chars = [u \in Accounts |-> FALSE]
    /\ NoPromoTables
    /\ GroupsAndGifts
    /\ NoPure

\* three of the threads
Init == InitShared /\ live \in {{"s1", "s2", "w1"}, {"s1", "w1", "w2"}}

\* two of the threads
InitFair == InitShared /\ live \in {{"s1", "s2"}, {"s1", "w1"}, {"w1", "w2"}}

\* ---- one batch thread, over the persisted states and pages of a batch ----
T1Rows == {r \in TaskRows : r.name = "T1"}
T2Now == [name |-> "T2", x |-> 1, y |-> 2]
T2Before == {T2Now, [name |-> "T2", x |-> 0, y |-> 2]}

\* scraped task lists: none, T1, or T1 and T2
TaskLists == {<< >>} \cup {<<r>> : r \in T1Rows} \cup {<<r, T2Now>> : r \in T1Rows}

\* task histories: up to two rows of T1, then possibly one of T2
T1Histories ==
    {<< >>} \cup {<<r>> : r \in T1Rows} \cup {<<q, r>> : q \in T1Rows, r \in T1Rows}
Histories == T1Histories \cup {h \o <<r>> : h \in T1Histories, r \in T2Before}

StoredMdm == {NULL, "0", "x"}

\* the persisted state of one account: no row, or a row and its task rows
Persisted(hs) ==
    {[has |-> FALSE, row |-> Row(NULL, NULL, "FALSE"), tasks |-> << >>]} \cup
    {[has |-> TRUE, row |-> Row(g, m, "FALSE"), tasks |-> h] :
        g \in {NULL, "G1"}, m \in StoredMdm, h \in hs}

Pages(ts) ==
    FailSites
    \cup {OkSite(<< >>, "0", c, "none") : c \in BOOLEAN}
    \cup {OkSite(tl, m, TRUE, "none") : tl \in ts \ {<< >>}, m \in MdmTexts}

FewHistories == {<< >>, << [name |-> "T1", x |-> 0, y |-> 1] >>}
FewTaskLists == {<< >>, << [name |-> "T1", x |-> 1, y |-> 2] >>}

\* the other account when it has no session file: no row, or a row in a
\* group or in none
OtherRows ==
    {[has |-> FALSE, row |-> Row(NULL, NULL, "FALSE"), tasks |-> << >>]} \cup
    {[has |-> TRUE, row |-> Row(g, "0", "FALSE"), tasks |-> << >>] :
        g \in {NULL, "G1"}}

BatchState(files, p1, s1, p2, s2) ==
    /\ cookie_files = files
    /\ site = [u \in Accounts |->
                 IF u = "a1" THEN s1 ELSE IF u = "a2" THEN s2 ELSE IdleSite]
    /\ db_accounts = [u \in {v \in {"a1", "a2"} :
                                IF v = "a1" THEN p1.has ELSE p2.has} |->
                         IF u = "a1" THEN p1.row ELSE p2.row]
    /\ db_tasks = [u \in Accounts |->
                     IF u = "a1" THEN p1.tasks
                     ELSE IF u = "a2" THEN p2.tasks ELSE << >>]

\* No session file; one file, over every history and page of its account;
\* two files, in either order, over fewer histories and pages of each.
InitBatch ==
    /\ InitProgram
    /\ live = {"s1"}
    /\ db_chars = [u \in Accounts |-> FALSE]
    /\ NoPromoTables
    /\ GroupsAndGifts
    /\ NoPure
    /\ \/ \E p1 \in Persisted(FewHistories) :
            BatchState(<< >>, p1, IdleSite, p1, IdleSite)
       \/ \E p1 \in Persisted(Histories), s1 \in Pages(TaskLists),
             p2 \in OtherRows :
            BatchState(<<"a1">>, p1, s1, p2, IdleSite)
       \/ \E files \in {<<"a1", "a2">>, <<"a2", "a1">>},
             p1 \in Persisted(FewHistories), s1 \in Pages(FewTaskLists),
             p2 \in Persisted({<< >>}), s2 \in Pages(FewTaskLists) :
            BatchState(files, p1, s1, p2, s2)

\* ---- one web thread activating the promo code ----
PromoSites ==
    {OkSite(<< >>, "0", FALSE, page) : page \in PromoPages}
    \cup {[OkSite(<< >>, "0", FALSE, "none") EXCEPT !.cookie = FALSE],
          [OkSite(<< >>, "0", FALSE, "none") EXCEPT !.driver = FALSE]}

\* Every account has a row; a1 takes part, a2 and a3 may. The promo code is
\* not in promo_codes, as for every code the program sees for the first time
\* (it only ever writes 'invalid' or 'expired' there), or it has been entered
\* into the table as 'active' by hand.
InitPromo ==
    /\ InitProgram
    /\ live = {"w1"}
    /\ cookie_files = <<"a1", "a2", "a3">>
    /\ site \in [Accounts -> PromoSites]
    /\ \E f \in [Accounts -> {"TRUE", "FALSE"}] :
          /\ f["a1"] = "TRUE"
          /\ db_accounts = [u \in Accounts |-> Row(NULL, "0", f[u])]
    /\ db_tasks = [u \in Accounts |-> << >>]
    /\ db_chars = [u \in Accounts |-> FALSE]
    /\ db_promo_codes \in {"absent", "active"}
    /\ db_account_promo = [u \in Accounts |-> "none"]
    /\ GroupsAndGifts
    /\ NoPure

\* ---- one thread, over the ways get_driver can end ----
\* the grid creates no session; or it creates them and the timeout calls of
\* the first `lost` sessions raise WebDriverException
SessionSites ==
    {[OkSite(<< [name |-> "T1", x |-> 1, y |-> 2] >>, "7", TRUE, "none")
         EXCEPT !.lost = n] : n \in {0, 1, max_attempts - 1, max_attempts}}
    \cup {[OkSite(<< >>, "0", FALSE, "other") EXCEPT !.lost = n, !.auth = FALSE] :
             n \in {0, 1}}
    \cup {[OkSite(<< >>, "0", FALSE, "exception") EXCEPT !.driver = FALSE]}

InitSessions ==
    /\ InitProgram
    /\ live \in {{"s1"}, {"w1"}}
    /\ cookie_files = <<"a1", "a2">>
    /\ \E s1 \in SessionSites, s2 \in SessionSites :
          site = [u \in Accounts |->
                    IF u = "a1" THEN s1 ELSE IF u = "a2" THEN s2 ELSE IdleSite]
    /\ db_accounts = [u \in {"a1", "a2"} |-> Row(NULL, "0", "TRUE")]
    /\ db_tasks = [u \in Accounts |-> << >>]
    /\ db_chars = [u \in Accounts |-> FALSE]
    /\ NoPromoTables
    /\ GroupsAndGifts
    /\ NoPure

\* ---- one request thread on the group and account handlers ----
\* a1 has a row, task rows and a session file and is in a group; a2 may
\* have a row, in G1 or in no group; a3 has nothing. The promo code may
\* have been entered by hand and activated for a1.
InitAdmin ==
    /\ InitProgram
    /\ live = {"w1"}
    /\ site = [u \in Accounts |-> IdleSite]
    /\ cookie_files \in {<<"a1", "a2">>, <<"a1">>}
    /\ \E g1 \in {DefaultGroup, "G1"}, p2 \in OtherRows :
          db_accounts = [u \in {"a1"} \cup (IF p2.has THEN {"a2"} ELSE {}) |->
                           IF u = "a1" THEN Row(g1, "7", "TRUE") ELSE p2.row]
    /\ db_tasks = [u \in Accounts |->
                     IF u = "a1" THEN << [name |-> "T1", x |-> 1, y |-> 2] >>
                     ELSE << >>]
    /\ \E c \in BOOLEAN : db_chars = [u \in Accounts |-> c /\ u = "a1"]
    /\ \E a \in {"none", "success"} :
          /\ db_promo_codes = IF a = "none" THEN "absent" ELSE "active"
          /\ db_account_promo = [u \in Accounts |->
                                   IF u = "a1" THEN a ELSE "none"]
    /\ GroupsAndGifts
    /\ NoPure

\* ---- the task history under save_task_data and the batch ----
\* a1 has a row, no task row yet and a session file; a2 has no row
InitTasks ==
    /\ InitProgram
    /\ live = {"s1"}
    /\ cookie_files = <<"a1">>
    /\ \E s1 \in {OkSite(tl, "7", FALSE, "none") : tl \in FewTaskLists \ {<< >>}}
                 \cup {IdleSite} :
          site = [u \in Accounts |-> IF u = "a1" THEN s1 ELSE IdleSite]
    /\ db_accounts = ("a1" :> Row(NULL, "0", "FALSE"))
    /\ db_tasks = [u \in Accounts |-> << >>]
    /\ db_chars = [u \in Accounts |-> FALSE]
    /\ NoPromoTables
    /\ GroupsAndGifts
    /\ NoPure

\* ---- the accounts table under save_account_data, update_alias and the
\* checks of a batch ----
\* the rows a1 can have after the dashboard was used: an alias, a group, a
\* server and the flags set or not
StoredAccountRows ==
    {[Row(g, "0", p) EXCEPT !.alias = a, !.server = sv] :
        g \in {NULL, "G1"}, p \in {"TRUE", "FALSE"}, a \in {NULL, "A0"},
        sv \in {NULL, "S0"}}

\* the keyword arguments with which save_account_data is called: at most
\* MaxArgs of them are passed (its callers pass one or two)
ArgumentSets ==
    {args \in [alias : {NULL, "A1"}, last_success : {NULL, Timestamp},
               server : {NULL, "S1"}, use_promo : {NULL, "FALSE"},
               transfer_to_game : {NULL, "TRUE"},
               group : {NULL, DefaultGroup, "G9"}, mdm : {NULL, "7"}] :
        Cardinality({c \in Columns : args[c] # NULL}) <= MaxArgs}

InitAccounts ==
    /\ InitProgram
    /\ live = {"s1", "w1"}
    /\ cookie_files = <<"a1">>
    /\ site = [u \in Accounts |->
                 IF u = "a1"
                 THEN OkSite(<< [name |-> "T1", x |-> 1, y |-> 2] >>, "7",
                             FALSE, "none")
                 ELSE IdleSite]
    /\ \/ db_accounts = << >>
       \/ \E r \in StoredAccountRows : db_accounts = ("a1" :> r)
    /\ db_tasks = [u \in Accounts |-> << >>]
    /\ db_chars = [u \in Accounts |-> FALSE]
    /\ NoPromoTables
    /\ GroupsAndGifts
    /\ NoPure

\* ---- a batch that checks a1 while the dashboard is used ----
\* a1 has a session file and a row, in a group or not; its pages show a
\* character, a task and a balance
InitRace ==
    /\ InitProgram
    /\ live = {"s1", "w1"}
    /\ cookie_files = <<"a1">>
    /\ site = [u \in Accounts |->
                 IF u = "a1"
                 THEN OkSite(<< [name |-> "T1", x |-> 1, y |-> 2] >>, "7",
                             TRUE, "none")
                 ELSE IdleSite]
    /\ \E g \in {NULL, "G1"}, p \in {"TRUE", "FALSE"} :
          db_accounts = ("a1" :> Row(g, "0", p))
    /\ db_tasks = [u \in Accounts |-> << >>]
    /\ db_chars = [u \in Accounts |-> FALSE]
    /\ NoPromoTables
    /\ GroupsAndGifts
    /\ NoPure

\* ---- one progress text, through parse_progress and the diff ----
\* the pair the account's previous snapshot holds for the task, if any
PreviousPairs == {<<0, 1>>, <<1, 3>>, <<1, 10>>, <<3, 10>>, <<5, 10>>}

\* the program at rest, with nothing persisted
InitIdle ==
    /\ InitProgram
    /\ live = {}
    /\ cookie_files = << >>
    /\ site = [u \in Accounts |-> IdleSite]
    /\ db_accounts = << >>
    /\ db_tasks = [u \in Accounts |-> << >>]
    /\ db_chars = [u \in Accounts |-> FALSE]
    /\ NoPromoTables
    /\ GroupsAndGifts

InitPure ==
    /\ InitIdle
    /\ \E str \in Strings, p \in {<< >>} \cup {<<q>> : q \in PreviousPairs} :
          input = [kind |-> "progress", text |-> str, prev |-> p]
    /\ output = NoOutput

\* get_marathon_data: x, y, percent = self.parse_progress(progress)
ParseProgress ==
    /\ input.kind = "progress"
    /\ output.kind = "none"
    /\ output' = [kind |-> "parsed", value |-> parse_progress(input.text),
                  lines |-> << >>]
    /\ UNCHANGED <<is_checking, pc, op, live, cookie_files, site, dbvars,
                   orphans, input, session, ca, batch, promo, response,
                   busyAtArrival>>

\* check_all_accounts: the line of the parsed task against the previous pair
EmitLine ==
    /\ output.kind = "parsed"
    /\ output' = [output EXCEPT
          !.kind = "line",
          !.lines = TaskLine([name |-> "T1", x |-> output.value.x,
                              y |-> output.value.y],
                             IF input.prev = << >> THEN << >>
                             ELSE [n \in {"T1"} |-> input.prev[1]])]
    /\ UNCHANGED <<is_checking, pc, op, live, cookie_files, site, dbvars,
                   orphans, input, session, ca, batch, promo, response,
                   busyAtArrival>>

\* ---- one call of escape_markdown_v2 ----
InitEscape ==
    /\ InitIdle
    /\ \E text \in Texts : input = [kind |-> "text", text |-> text]
    /\ output = NoOutput

\* text=self.escape_markdown_v2(message)
EscapeMarkdown ==
    /\ input.kind = "text"
    /\ output.kind = "none"
    /\ output' = [kind |-> "escaped", text |-> escape_markdown_v2(input.text)]
    /\ UNCHANGED <<is_checking, pc, op, live, cookie_files, site, dbvars,
                   orphans, input, session, ca, batch, promo, response,
                   busyAtArrival>>

\* ---- one call of _send_grouped_reports ----
\* lines of a report: a short one, one of 3000 and one of 5000 characters
ReportLines == {Piece(20, 0), Piece(3000, 50), Piece(5000, 0)}
LineLists == {<< >>} \cup {<<l>> : l \in ReportLines}
                    \cup {<<l, m>> : l \in ReportLines, m \in ReportLines}
\* "БЕЗ ГРУППЫ", and a name with an underscore
ReportGroupNames == {[n |-> 10, r |-> 0], [n |-> 3, r |-> 1]}
GiftLists ==
    {<< >>, << [username |-> [n |-> 8, r |-> 0],
                gifts |-> << [n |-> 30, r |-> 4] >>] >>}

InitReport ==
    /\ InitIdle
    /\ \E name \in ReportGroupNames, success \in LineLists,
          changes \in LineLists, errors \in LineLists, gifts \in GiftLists :
          input = [kind |-> "report",
                   groups |-> << [name |-> name, success |-> success,
                                  changes |-> changes, errors |-> errors] >>,
                   total_accounts |-> Len(success) + Len(errors),
                   expiring_gifts |-> gifts]
    /\ output = NoOutput

\* self._send_grouped_reports(groups, len(accounts_data), expiring_gifts)
SendGroupedReports ==
    /\ input.kind = "report"
    /\ output.kind = "none"
    /\ output' = [kind |-> "sent",
                  messages |-> send_grouped_reports(input.groups,
                                                    input.total_accounts,
                                                    input.expiring_gifts)]
    /\ UNCHANGED <<is_checking, pc, op, live, cookie_files, site, dbvars,
                   orphans, input, session, ca, batch, promo, response,
                   busyAtArrival>>

\* ------------------------------------------------------------------------
\* Next-state relation
\* ------------------------------------------------------------------------
PromoCodes == {"", "P"}

Next ==
    \E t \in Threads :
        \/ CAA_Test(t)
        \/ CAA_Set(t)
        \/ CAA_List(t)
        \/ CA_Test(t)
        \/ CA_Set(t)
        \/ CA_Open(t)
        \/ CA_Scrape(t)
        \/ CA_Finally(t)
        \/ CAA_Process(t)
        \/ CAA_Report(t)
        \/ CAA_Finally(t)
        \/ \E u \in Accounts : RA_Request(t, u)
        \/ \E code \in PromoCodes : AP_Request(t, code)
        \/ AP_Loop(t)
        \/ AP_Open(t)
        \/ AP_Page(t)

Spec == Init /\ [][Next]_vars

\* each handler on a thread of its own, over the outcomes of get_driver
SpecSessions == InitSessions /\ [][Next]_vars

\* check_all_accounts alone, with the check_account calls of its loop
NextBatch ==
    \E t \in SchedThreads :
        \/ CAA_Test(t)
        \/ CAA_Set(t)
        \/ CAA_List(t)
        \/ CA_Set(t)
        \/ CA_Open(t)
        \/ CA_Scrape(t)
        \/ CA_Finally(t)
        \/ CAA_Process(t)
        \/ CAA_Report(t)
        \/ CAA_Finally(t)

SpecBatch == InitBatch /\ [][NextBatch]_vars

\* activate_promo alone
NextPromo ==
    \E t \in WebThreads :
        \/ \E code \in PromoCodes : AP_Request(t, code)
        \/ AP_Loop(t)
        \/ AP_Open(t)
        \/ AP_Page(t)

SpecPromo == InitPromo /\ [][NextPromo]_vars

\* the group and account handlers
NextAdmin ==
    \E t \in WebThreads :
        \/ \E group_name \in GroupNameInputs : CreateGroup(t, group_name)
        \/ \E group_id \in GroupIdInputs : DeleteGroup(t, group_id)
        \/ \E u \in Accounts, group_id \in GroupIdInputs : UpdateGroup(t, u, group_id)
        \/ \E u \in Accounts : DeleteAccount(t, u)

SpecAdmin == InitAdmin /\ [][NextAdmin]_vars

\* save_task_data, called directly and by the checks of a batch
NextTasks ==
    \/ \E u \in {"a1", "a2"}, task \in TaskRows : SaveTaskData(u, task)
    \/ NextBatch

SpecTasks == InitTasks /\ [][NextTasks]_vars

\* save_account_data, called directly, by update_alias and by the checks of
\* a batch
NextAccounts ==
    \/ \E args \in ArgumentSets : SaveAccountData("a1", args)
    \/ \E t \in WebThreads, alias \in AliasInputs : UpdateAlias(t, "a1", alias)
    \/ NextBatch

SpecAccounts == InitAccounts /\ [][NextAccounts]_vars

\* a batch on the scheduler thread, its check of an account in two steps,
\* and the account handlers on a request thread
NextRace ==
    \/ \E t \in SchedThreads :
          \/ CAA_Test(t)
          \/ CAA_Set(t)
          \/ CAA_List(t)
          \/ CA_Set(t)
          \/ CA_Open(t)
          \/ CA_Read(t)
          \/ CA_Write(t)
          \/ CA_Finally(t)
          \/ CAA_Process(t)
          \/ CAA_Report(t)
          \/ CAA_Finally(t)
    \/ \E t \in WebThreads :
          \/ \E group_id \in {"", "G1"} : UpdateGroup(t, "a1", group_id)
          \/ \E field \in FieldInputs, value \in ValueInputs :
                UpdateAccountSetting(t, "a1", field, value)
          \/ DeleteAccount(t, "a1")

SpecRace == InitRace /\ [][NextRace]_vars

\* the escaping of one message
NextEscape == EscapeMarkdown

SpecEscape == InitEscape /\ [][NextEscape]_vars

\* the report of one batch
NextReport == SendGroupedReports

SpecReport == InitReport /\ [][NextReport]_vars

\* parse_progress and the line of one task
NextPure == ParseProgress \/ EmitLine

SpecPure == InitPure /\ [][NextPure]_vars

\* The scheduler runs every thread that is inside a handler: the page loads,
\* the waits and get_driver's retries are all bounded by timeouts.
Continue(t) ==
    \/ CAA_Set(t)
    \/ CAA_List(t)
    \/ CA_Test(t)
    \/ CA_Set(t)
    \/ CA_Open(t)
    \/ CA_Scrape(t)
    \/ CA_Finally(t)
    \/ CAA_Process(t)
    \/ CAA_Report(t)
    \/ CAA_Finally(t)
    \/ AP_Loop(t)
    \/ AP_Open(t)
    \/ AP_Page(t)

FairSpec ==
    InitFair /\ [][Next]_vars /\ \A t \in Threads : WF_vars(Continue(t))

\* the same scheduling, over the outcomes of get_driver
FairSessions ==
    InitSessions /\ [][Next]_vars /\ \A t \in Threads : WF_vars(Continue(t))

\* ========================================================================
\* The claims
\* ========================================================================

\* C1: single-flight mutual exclusion: in every reachable state at most one
\* check (a batch, or a manual check_account) has set the flag and not yet
\* returned; a manual check never runs its body during a batch.
C1_SingleFlight == Cardinality({t \in Threads : HoldsFlag(t)}) <= 1

\* C2: from the moment check_all_accounts sets is_checking to True until it
\* returns, is_checking is True in every intermediate state.
C2_FlagHeldDuringBatch == \A t \in Threads : BatchHoldsFlag(t) => is_checking

\* C5: an invocation of check_all_accounts made while an earlier batch has
\* set the flag and not yet returned does not get past the test of the flag.
C5_SecondBatchRejected ==
    [][\A t \in Threads :
          (pc[t] = "idle" /\ pc'[t] = "caa_set")
              => ~(\E o \in Threads \ {t} : BatchHoldsFlag(o))]_vars

\* C6: a refresh_account request that arrives while a check is in flight is
\* answered 423 and starts no check: it never gets to check_account.
C6_RefreshRejectedWhenBusy ==
    \A t \in WebThreads : ~(busyAtArrival[t] /\ op[t] = "refresh")

\* C7: a promo activation and a check never hold browser sessions at the
\* same time.
C7_PromoExcludesCheck ==
    \A t, o \in Threads :
        ~(InPromo(t) /\ session[t] /\ InCheck(o) /\ session[o])

\* C4: the busy flag is always released: every check that set is_checking
\* ends, whether it completes, raises or finds no session file, and at its
\* end is_checking is False.
C4_FlagReleased ==
    \A t \in Threads : HoldsFlag(t) ~> (~HoldsFlag(t) /\ ~is_checking)

\* a batch left through an exception, and the flag is down
C4_Witness ==
    \E t \in Threads :
        pc[t] = "crashed" /\ response[t] = "aborted" /\ ~is_checking

\* C3: per-account failure isolation: when a batch over a non-empty list of
\* session files reaches its end, the grouped report has been sent and every
\* listed file has exactly one success line or one error line in the groups.
BatchLines(b, u) ==
    UNION {{<<g, "success", k>> : k \in {k \in 1..Len(b.groups[g].success) :
                                            b.groups[g].success[k] = u}}
           \cup {<<g, "error", k>> : k \in {k \in 1..Len(b.groups[g].errors) :
                                              b.groups[g].errors[k].name = u}}
           : g \in DOMAIN b.groups}

C3_EveryFileReported ==
    \A t \in Threads :
        (pc[t] = "caa_finally" /\ batch[t].files # << >>)
            => /\ batch[t].outcome = "reported"
               /\ \A u \in Range(batch[t].files) :
                     Cardinality(BatchLines(batch[t], u)) = 1

\* C8: promo short-circuit: in one activate_promo_code call, once the page of
\* account i is classified invalid or expired, every later account of the
\* list is recorded 'failed' and counted as an error, and none of them has
\* its session file read or a browser session opened; the call runs to the
\* end of the list.
C8_ShortCircuit ==
    \A t \in WebThreads :
        op[t] = "promo" =>
            LET p == promo[t]
            IN  /\ Len(p.log) = p.i - 1
                /\ p.errors = Cardinality({k \in 1..Len(p.log) :
                                              p.log[k] \notin {"none", "already"}})
                /\ p.status # "active" => (pc[t] = "ap_loop" /\ ~session[t])
                /\ response[t] # "500"
                /\ \A i \in 1..Len(p.log) :
                      p.log[i] \in {"invalid", "expired"} =>
                          \A j \in (i + 1)..Len(p.log) :
                              /\ p.log[j] = "short_circuit"
                              /\ p.accounts[j] \notin p.attempted
                              /\ db_account_promo[p.accounts[j]] = "failed"

\* the first of three accounts was classified, the other two were skipped
C8_Witness ==
    \E t \in WebThreads :
        /\ op[t] = "promo"
        /\ Len(promo[t].log) = 3
        /\ promo[t].log[1] \in {"invalid", "expired"}
        /\ promo[t].log[2] = "short_circuit"
        /\ promo[t].log[3] = "short_circuit"
        /\ promo[t].errors = 3

\* C9: promo outcome classification: an attempted account whose result page
\* has no error block, or says the code is already activated, is counted as
\* activated and gets a per-account record 'success' resp.
\* 'already_activated'.
C9_ActivationRecorded ==
    \A t \in WebThreads :
        op[t] = "promo" =>
            LET p == promo[t]
                read(k) == /\ p.log[k] # "short_circuit"
                           /\ site[p.accounts[k]].cookie
                           /\ site[p.accounts[k]].driver
                           /\ site[p.accounts[k]].promo \in {"none", "already"}
            IN  /\ p.activated = Cardinality({k \in 1..Len(p.log) : read(k)})
                /\ \A k \in 1..Len(p.log) :
                      read(k) =>
                          db_account_promo[p.accounts[k]] =
                              IF site[p.accounts[k]].promo = "none"
                              THEN "success" ELSE "already_activated"

\* C10: task diff policy: at the end of a batch, for every account whose
\* check succeeded, a scraped task that is in the previous snapshot has a
\* change line if and only if its pair differs from the previous one, and a
\* scraped task that is not in the previous snapshot has a line labelled
\* new whose bar has no filled cell.
TaskLinesOf(b, u) ==
    UNION {UNION {Range(b.groups[g].changes[k].tasks) :
                    k \in {k \in 1..Len(b.groups[g].changes) :
                              b.groups[g].changes[k].username = u}}
           : g \in DOMAIN b.groups}

CheckSucceeded(b, u) ==
    /\ \E k \in 1..b.i : b.files[k] = u
    /\ site[u].cookie /\ site[u].driver /\ site[u].auth
    /\ site[u].tasks # << >>

C10_TaskDiffPolicy ==
    \A t \in Threads :
        pc[t] = "caa_finally" =>
            \A u \in Range(batch[t].files) :
                CheckSucceeded(batch[t], u) =>
                    LET b == batch[t]
                        prev == IF u \in DOMAIN b.prev THEN b.prev[u].tasks
                                ELSE << >>
                        lines == TaskLinesOf(b, u)
                    IN  \A k \in 1..Len(site[u].tasks) :
                            LET task == site[u].tasks[k]
                                mine == {l \in lines : l.name = task.name}
                            IN  IF task.name \in DOMAIN prev
                                THEN /\ (mine # {}) <=>
                                          (<<task.x, task.y>> # prev[task.name])
                                     /\ \A l \in mine : l.kind = "changed"
                                ELSE /\ mine # {}
                                     /\ \A l \in mine :
                                           l.kind = "new" /\ l.bar.filled = 0

\* C11: diff baseline: the previous pair that a batch uses for an account
\* and a task name is the pair of the most recently persisted row of that
\* account and name as of the start of the batch.
C11_BaselineIsLatest ==
    \A t \in Threads :
        (op[t] = "batch" /\ pc[t] = "ca_set" /\ batch[t].i = 1) =>
            \A u \in DOMAIN batch[t].prev :
                \A n \in DOMAIN batch[t].prev[u].tasks :
                    LET r == LatestRow(db_tasks[u], n)[1]
                    IN  batch[t].prev[u].tasks[n] = <<r.x, r.y>>

\* C12: parse_progress: for a text "a/b" of two integers with b # 0 the
\* result is (a, b, 100 a / b); for b = 0 and for every other text it is
\* (0, 1, 0); no result has the total 0.
IsIntegerText(w) ==
    /\ w # << >>
    /\ LET d == IF w[1] = "-" THEN Tail(w) ELSE w
       IN  d # << >> /\ \A i \in 1..Len(d) : d[i] \in Digits

RECURSIVE Pow10(_)
Pow10(n) == IF n = 0 THEN 1 ELSE 10 * Pow10(n - 1)

RECURSIVE DigitSum(_, _)
DigitSum(d, i) ==
    IF i > Len(d) THEN 0
    ELSE DigitValue(d[i]) * Pow10(Len(d) - i) + DigitSum(d, i + 1)

ValueOfText(w) ==
    IF w[1] = "-" THEN 0 - DigitSum(Tail(w), 1) ELSE DigitSum(w, 1)

TwoIntegers(str, k) ==
    /\ str[k] = "/"
    /\ IsIntegerText(SubSeq(str, 1, k - 1))
    /\ IsIntegerText(SubSeq(str, k + 1, Len(str)))
    /\ ValueOfText(SubSeq(str, k + 1, Len(str))) # 0

C13_BarHasTenCells ==
    output.kind = "line" =>
        \A k \in 1..Len(output.lines) :
            LET l == output.lines[k]
            IN  /\ l.bar.filled + l.bar.empty = width
                /\ l.kind = "changed" =>
                       2 * l.bar.filled * l.y - 2 * width * l.x
                           \in (0 - l.y)..l.y \cup l.y..(0 - l.y)

\* C14: when a task moves from (x1, y) to (x2, y) with x2 > x1, the change
\* line shows x2/y, the difference x2 - x1 with a plus sign, and a bar whose
\* filled cells are 10 * x2 / y rounded to a nearest integer.
C14_DeltaOfChangedTask ==
    (/\ output.kind = "line"
     /\ input.prev # << >>
     /\ output.value.y = input.prev[1][2]
     /\ output.value.x > input.prev[1][1]) =>
        /\ Len(output.lines) = 1
        /\ LET l == output.lines[1]
           IN  /\ l.kind = "changed"
               /\ l.x = output.value.x /\ l.y = output.value.y
               /\ l.plus /\ l.shown
               /\ l.delta = output.value.x - input.prev[1][1]
               /\ 2 * l.bar.filled * l.y - 2 * width * l.x \in (0 - l.y)..l.y

\* 3/10 became 5/10: five cells filled, +2
C14_Witness ==
    /\ output.kind = "line"
    /\ input.text = <<"5", "/", "1", "0">>
    /\ input.prev = << <<3, 10>> >>
    /\ Len(output.lines) = 1
    /\ output.lines[1].bar.filled = 5
    /\ output.lines[1].delta = 2
    /\ output.lines[1].plus

\* C15: browser sessions are scoped: outside the body that runs under the
\* driver no thread holds a session, and no session created by an attempt
\* of get_driver is left open.
C15_SessionsScoped ==
    /\ orphans = {}
    /\ \A t \in Threads : session[t] => pc[t] \in {"ca_scrape", "ap_page"}

\* C16: loss of authentication: when the page loaded after the cookies were
\* applied is the login page, check_account ends in an error result, has
\* performed no extraction step and has written no account, task, character
\* or gift row.
C16_AuthLoss ==
    [][\A t \in Threads :
          (/\ pc[t] = "ca_scrape"
           /\ ~site[ca[t].file].auth
           /\ pc'[t] = "ca_finally") =>
              /\ ca'[t].result.status = "error"
              /\ ca'[t].result.message = "auth"
              /\ ca'[t].result.username = ca[t].file
              /\ ca'[t].steps = {}
              /\ db_accounts' = db_accounts
              /\ db_tasks' = db_tasks
              /\ db_chars' = db_chars
              /\ db_gifts' = db_gifts]_vars

\* a check under the driver has ended on the login page
C16_Witness ==
    \E t \in Threads :
        /\ pc[t] = "ca_finally"
        /\ ~site[ca[t].file].auth
        /\ ~session[t]
        /\ ca[t].result.message = "auth"

\* C17: per-account snapshot consistency: a check_account call that ends in
\* an error result has changed none of the account's task, character and
\* gift rows; one that ends in success has persisted its tasks and the
\* gifts it scraped.
C17_SnapshotConsistent ==
    [][\A t \in Threads :
          (pc[t] = "ca_scrape" /\ pc'[t] = "ca_finally") =>
              LET u == ca[t].file
              IN  IF ca'[t].result.status = "success"
                  THEN /\ db_gifts'[u] = ca'[t].result.gifts
                       /\ \A k \in 1..Len(ca'[t].result.tasks) :
                             LET task == ca'[t].result.tasks[k]
                                 r == LatestRow(db_tasks'[u], task.name)[1]
                             IN  r.x = task.x /\ r.y = task.y
                  ELSE /\ db_tasks'[u] = db_tasks[u]
                       /\ db_chars'[u] = db_chars[u]
                       /\ db_gifts'[u] = db_gifts[u]]_vars

\* C18: group deletion detaches accounts: after delete_group(g) every
\* account that was in g still exists with its tasks, characters and other
\* columns unchanged, has no group and is listed in the default bucket; and
\* in every reachable state the group of an account is NULL or an existing
\* group.
C18_GroupDeletionDetaches ==
    [][/\ \A u \in DOMAIN db_accounts' :
             db_accounts'[u].group \in db_groups' \cup {NULL}
       /\ input'.kind = "delete_group" =>
             \A u \in DOMAIN db_accounts :
                 db_accounts[u].group = input'.group_id =>
                     /\ u \in DOMAIN db_accounts'
                     /\ db_accounts'[u] = [db_accounts[u] EXCEPT !.group = NULL]
                     /\ db_tasks'[u] = db_tasks[u]
                     /\ db_chars'[u] = db_chars[u]
                     /\ u \in prepare_accounts_data'[DefaultGroup]]_vars

\* G1 was deleted and a1, whose group is never NULL before a request,
\* has no group
C18_Witness ==
    /\ input = [kind |-> "delete_group", group_id |-> "G1"]
    /\ "G1" \notin db_groups
    /\ "a1" \in DOMAIN db_accounts
    /\ db_accounts["a1"].group = NULL
    /\ db_tasks["a1"] # << >>

\* C19: the reserved default group is in the groups table in every
\* reachable state, under any create_group and delete_group requests.
C19_DefaultGroupExists == DefaultGroup \in db_groups

\* C20: account deletion cascades: after delete_account(u) has answered
\* with its redirect, u has no account, task, character, gift or
\* promo-activation row and no session file, and the rows of the other
\* accounts are unchanged.
C20_AccountDeletionCascades ==
    [][(input'.kind = "delete_account" /\ output' = Redirect) =>
          LET u == input'.username
          IN  /\ u \notin DOMAIN db_accounts'
              /\ db_tasks'[u] = << >>
              /\ db_chars'[u] = FALSE
              /\ db_gifts'[u] = FALSE
              /\ db_account_promo'[u] = "none"
              /\ u \notin Range(cookie_files')
              /\ \A v \in Accounts \ {u} :
                    /\ v \in DOMAIN db_accounts <=> v \in DOMAIN db_accounts'
                    /\ v \in DOMAIN db_accounts =>
                          db_accounts'[v] = db_accounts[v]
                    /\ db_tasks'[v] = db_tasks[v]
                    /\ db_chars'[v] = db_chars[v]
                    /\ db_gifts'[v] = db_gifts[v]
                    /\ db_account_promo'[v] = db_account_promo[v]]_vars

\* a1, which had task rows, an activation row and a session file, was
\* deleted while a2 keeps its row and its file
C20_Witness ==
    /\ input = [kind |-> "delete_account", username |-> "a1"]
    /\ output = Redirect
    /\ "a1" \notin DOMAIN db_accounts
    /\ "a2" \in DOMAIN db_accounts
    /\ db_promo_codes = "active"
    /\ cookie_files = <<"a2">>

\* C21: task history is append-only: every step keeps the task rows of
\* every account as a prefix of the new ones; save_task_data appends exactly
\* the new row when the account exists and has no row of that task name or
\* its latest row holds another pair, and nothing otherwise;
\* get_account_tasks gives for every task name the row inserted last.
IsPrefix(a, b) == Len(a) <= Len(b) /\ SubSeq(b, 1, Len(a)) = a

Positions(rows, n) == {i \in 1..Len(rows) : rows[i].name = n}

LastPosition(rows, n) ==
    CHOOSE i \in Positions(rows, n) : \A j \in Positions(rows, n) : j <= i

C22_MessageCeiling ==
    output.kind = "sent" =>
        \A i \in 1..Len(output.messages) :
            /\ output.messages[i].len > 0
            /\ output.messages[i].escaped <= 4096

\* C23: escape_markdown_v2: a span delimited by a pair of triple-backtick
\* fences is output unchanged with its fences; every reserved character
\* outside such a span is output preceded by one backslash, every other
\* character as it is (so that removing the inserted backslashes gives the
\* input back).
FenceAt(text, i) ==
    i >= 1 /\ i + 2 <= Len(text) /\ \A k \in 0..2 : text[i + k] = Backtick

ClosingFence(text, i) ==
    CHOOSE j \in (i + 3)..Len(text) :
        FenceAt(text, j) /\ \A k \in (i + 3)..(j - 1) : ~FenceAt(text, k)

OpensSpan(text, i) ==
    FenceAt(text, i) /\ \E j \in (i + 3)..Len(text) : FenceAt(text, j)

RECURSIVE EscapedOutsideSpans(_, _)
EscapedOutsideSpans(text, i) ==
    IF i > Len(text) THEN << >>
    ELSE IF OpensSpan(text, i)
    THEN SubSeq(text, i, ClosingFence(text, i) + 2)
         \o EscapedOutsideSpans(text, ClosingFence(text, i) + 3)
    ELSE IF text[i] \in {Backtick, Underscore}
    THEN <<Backslash, text[i]>> \o EscapedOutsideSpans(text, i + 1)
    ELSE <<text[i]>> \o EscapedOutsideSpans(text, i + 1)

C23_EscapeMarkdown ==
    output.kind = "escaped" =>
        output.text = EscapedOutsideSpans(input.text, 1)

\* C24: bounded driver retry: get_driver makes at most 5 attempts and
\* returns the driver of the first attempt that succeeds; after 5 failed
\* attempts check_account ends in an error result for that account; and a
\* check_account that reached get_driver returns.
FirstSuccess(s) == IF s.driver /\ s.lost < 5 THEN s.lost + 1 ELSE 0

C24_BoundedRetry ==
    /\ [][\A t \in Threads :
             (pc[t] = "ca_open" /\ pc'[t] # "ca_open"
                  /\ site[ca[t].file].cookie) =>
                 LET first == FirstSuccess(site[ca[t].file])
                 IN  /\ ca'[t].attempts <= 5
                     /\ first > 0 => /\ ca'[t].attempts = first
                                     /\ session'[t]
                                     /\ pc'[t] = "ca_scrape"
                     /\ first = 0 => /\ ca'[t].attempts = 5
                                     /\ ~session'[t]
                                     /\ pc'[t] = "ca_finally"
                                     /\ ca'[t].result.status = "error"
                                     /\ ca'[t].result.username = ca[t].file]_vars
    /\ \A t \in Threads :
          (pc[t] = "ca_open") ~>
              (pc[t] \notin {"ca_open", "ca_scrape", "ca_finally"})

\* five attempts failed and the check holds the error result of its account
C24_Witness ==
    \E t \in Threads :
        /\ pc[t] = "ca_finally"
        /\ site[ca[t].file].cookie
        /\ site[ca[t].file].driver
        /\ ca[t].attempts = 5
        /\ ca[t].result.status = "error"
        /\ ~session[t]

\* the bucket of the account whose result the batch of t is about to file:
\* the group name of its row at batch start, the fallback bucket for no
\* group and for no row
BucketAtStart(t) ==
    LET u == ca[t].result.username
    IN  IF u \in DOMAIN batch[t].prev THEN batch[t].prev[u].group_name
        ELSE FallbackBucket

\* C25: malformed or missing numeric data never raises out of the diff: for
\* every scraped balance, every previously persisted balance (NULL
\* included) and every scraped task, the loop body of the batch, given the
\* account's bucket, completes and the batch goes on to the next account or
\* to the report.
C25_DiffNeverRaises ==
    [][\A t \in Threads :
          (pc[t] = "caa_process" /\ BucketAtStart(t) \in DOMAIN batch[t].groups)
              => /\ pc'[t] \in {"ca_set", "caa_report"}
                 /\ batch'[t].outcome # "aborted"]_vars

\* C26: grouping: the line of every checked account is appended to the
\* bucket of the group name the account had at batch start, to the fallback
\* bucket when it had no group or no row; that bucket exists.
C26_Grouping ==
    [][\A t \in Threads :
          pc[t] = "caa_process" =>
              LET u == ca[t].result.username
                  key == BucketAtStart(t)
              IN  /\ key \in DOMAIN batch'[t].groups
                  /\ IF ca[t].result.status = "success"
                     THEN u \in Range(batch'[t].groups[key].success)
                     ELSE \E k \in 1..Len(batch'[t].groups[key].errors) :
                             batch'[t].groups[key].errors[k].name = u]_vars

\* the statuses of a promo code after which it is never tried again
TerminalStatuses == {"invalid", "expired"}

\* C27: a terminal promo status is global and sticky across requests: the
\* step in which activate_promo_code classifies the code as invalid or
\* expired stores that value as the code's status; a stored terminal status
\* never changes; and every request handled while the stored status is
\* terminal (no other request being in progress) is answered with an error,
\* leaves the thread idle, selects no account, opens no session and writes
\* no row.
C27_TerminalSticky ==
    [][/\ db_promo_codes \in TerminalStatuses => db_promo_codes' = db_promo_codes
       /\ \A t \in Threads :
             (promo[t].status = "active" /\ promo'[t].status \in TerminalStatuses)
                 => db_promo_codes' = promo'[t].status
       /\ ((\A t \in Threads : pc[t] = "idle")
              /\ db_promo_codes \in TerminalStatuses)
             => /\ \A t \in Threads :
                     /\ pc'[t] = "idle"
                     /\ t \in live => response'[t] \in {"error", "400"}
                /\ promo' = promo
                /\ session' = session
                /\ dbvars' = dbvars]_vars

\* a request for the code was rejected after its classification, although
\* accounts that would take part remain
C27_Witness ==
    /\ db_promo_codes \in TerminalStatuses
    /\ PromoCandidates # {}
    /\ \E t \in WebThreads : pc[t] = "idle" /\ response[t] = "error"

\* the columns a check does not pass to save_account_data
SettingColumns == {"alias", "group", "server", "use_promo", "transfer_to_game"}

\* the step is a call of a Database method or a dashboard handler, not a
\* step of a check
IsCall(kind) ==
    /\ input'.kind = kind
    /\ UNCHANGED <<pc, ca, batch, is_checking>>

\* C28: save_account_data updates only the fields for which a value other
\* than None is passed: after a call that returned True the row of an
\* existing account holds its former value in every column whose argument
\* is None, and the row of a new account holds NULL there; a call that
\* returned False wrote nothing; no other row is touched. The write of a
\* successful check leaves alias, group, server and the two flags of an
\* existing row as they were, and update_alias leaves every group as it was.
C28_OnlyPassedFields ==
    [][/\ IsCall("save_account_data") =>
            LET u == input'.username
                args == input'.args
            IN  /\ \A v \in DOMAIN db_accounts \ {u} :
                      v \in DOMAIN db_accounts' /\ db_accounts'[v] = db_accounts[v]
                /\ IF output'.ok
                   THEN /\ u \in DOMAIN db_accounts'
                        /\ \A c \in Columns :
                              args[c] = NULL =>
                                  db_accounts'[u][c] =
                                      IF u \in DOMAIN db_accounts
                                      THEN db_accounts[u][c] ELSE NULL
                   ELSE db_accounts' = db_accounts
       /\ \A t \in Threads :
             (pc[t] = "ca_scrape" /\ ca'[t].result.status = "success"
                /\ ca[t].file \in DOMAIN db_accounts)
                 => \A c \in SettingColumns :
                       db_accounts'[ca[t].file][c] = db_accounts[ca[t].file][c]
       /\ IsCall("update_alias") =>
             \A v \in DOMAIN db_accounts :
                 v \in DOMAIN db_accounts'
                   /\ db_accounts'[v].group = db_accounts[v].group]_vars

\* a call with alias=None and a server has kept the alias of the existing
\* row and stored the server
C28_Witness ==
    /\ input.kind = "save_account_data"
    /\ input.args.alias = NULL
    /\ input.args.server = "S1"
    /\ output.ok
    /\ "a1" \in DOMAIN db_accounts
    /\ db_accounts["a1"].alias = "A0"
    /\ db_accounts["a1"].server = "S1"
    /\ db_accounts["a1"].group = "G1"

\* the last request was a settings change of account u that committed
SettingCommitted(u) ==
    /\ input.kind \in {"update_group", "update_account_setting"}
    /\ input.username = u
    /\ output \in {Redirect, [kind |-> "json", status |-> "success"]}

\* the column the last request wrote
ColumnWritten ==
    IF input.kind = "update_group" THEN "group" ELSE input.field

\* C29: no lost update between a check and a settings change: when
\* update_account_group or update_account_setting for account u has
\* committed, at any point of a check of u, the value it wrote is still the
\* stored value of that column once the check's save_account_data has
\* completed.
C29_NoLostUpdate ==
    [][\A t \in Threads :
          (pc[t] = "ca_save" /\ pc'[t] # "ca_save"
             /\ SettingCommitted(ca[t].file)
             /\ ca[t].file \in DOMAIN db_accounts)
              => /\ ca[t].file \in DOMAIN db_accounts'
                 /\ db_accounts'[ca[t].file][ColumnWritten] =
                        db_accounts[ca[t].file][ColumnWritten]]_vars

\* a check of account u is between its start and its return
CheckInProgress(u) ==
    \E t \in Threads :
        ca[t].file = u /\ pc[t] \in {"ca_open", "ca_scrape", "ca_save"}

\* C30: deletion is final with respect to the checks in flight: when
\* delete_account(u) was the last request and no check of u is in progress
\* any more, there is no account row and no task, character or gift row of
\* u, and u has no session file for a later batch to check.
C30_DeletionFinal ==
    \A u \in Accounts :
        (input = [kind |-> "delete_account", username |-> u]
           /\ ~CheckInProgress(u))
            => /\ u \notin DOMAIN db_accounts
               /\ db_tasks[u] = << >>
               /\ ~db_chars[u]
               /\ ~db_gifts[u]
               /\ \A k \in 1..Len(cookie_files) : cookie_files[k] # u

====
